---- MODULE Spec2Model ----
(***************************************************************************)
(* LocalCI pipeline execution engine.                                      *)
(*                                                                         *)
(*   Spec       PipelineRunner.run() over a list of steps                  *)
(*              (packages/ci-runner-core/src/runner/pipelineRunner.ts)     *)
(*   WatchSpec  runWatchLoop: debounced, mutually exclusive reruns         *)
(*              (packages/ci-runner-cli/src/runPipeline.ts)                *)
(*                                                                         *)
(* Timestamps, durations, captured output text and parsed metrics are not  *)
(* part of the state: no modelled decision reads them.                     *)
(***************************************************************************)
EXTENDS Integers, Sequences, FiniteSets, TLC

\* ------------------------------------------------------------------ bounds
\* Longest step list given to a runner.
MaxSteps == 2
\* Largest configured retry.maxAttempts (0 stands for every value below 1).
MaxAttemptsCfg == 2

\* ------------------------------------------------------------ pipeline run
VARIABLES
    steps,            \* options.steps: the declared step list
    continueOnError,  \* options.continueOnError after the constructor's default
    parserResolver,   \* options.parserResolver: absent | none | metric
    pc,               \* where run() is suspended: created | exec | sleep | stepComplete | done
    index,            \* 1-based position of the step being executed
    attempts,         \* executeStep's attempts counter
    lastExecution,    \* executeStep's lastExecution (the zeroed outcome for null)
    stepResults,      \* run()'s stepResults
    result,           \* <<>> until run() builds its PipelineRunResult, then <<it>>
    events            \* everything run() did to its collaborators, in order

rvars == <<steps, continueOnError, parserResolver, pc, index, attempts, lastExecution,
          stepResults, result, events>>

\* CommandExecutionResult as far as the runner reads it: the Node executor
\* computes successful = !timedOut && exitCode === 0 && error === undefined.
Success == [successful |-> TRUE, timedOut |-> FALSE]
Failure == [successful |-> FALSE, timedOut |-> FALSE]
Timeout == [successful |-> FALSE, timedOut |-> TRUE]
Outcomes == {Success, Failure, Timeout}
NoOutcome == [successful |-> FALSE, timedOut |-> FALSE]
createFallbackExecutionResult == [successful |-> FALSE, timedOut |-> FALSE]

\* ParsedStepMetrics | null: null, or the metric its source k yields.
NoMetrics == {}
MetricsOf(k) == {k}

\* options.parserResolver: left out, one whose parse returns null, and one
\* whose parse returns a metric for the step.
ParserResolvers == {"absent", "none", "metric"}

\* this.options.parserResolver?.parse(step, output) ?? null
resolveMetrics(step) ==
    IF parserResolver = "metric" THEN MetricsOf(step.id) ELSE NoMetrics

\* The values of retry.delayMs: absent or zero, and a positive delay.
Delays == {0, 250}

\* A PipelineStep as far as the runner reads it, without its id.  A step that
\* cannot retry: no retry policy (maxAttempts defaults to 1) or maxAttempts
\* below 1 (0 stands for every such value).
PlainSteps ==
    [optional : BOOLEAN,
     maxAttempts : {0, 1},
     delayMs : {0},
     retryOnTimeout : {FALSE}]

\* A step whose retry policy allows more than one attempt.
RetryingSteps ==
    [optional : BOOLEAN,
     maxAttempts : 2..MaxAttemptsCfg,
     delayMs : Delays,
     retryOnTimeout : BOOLEAN]

\* The step lists a runner is constructed with.  A step's id is its position,
\* so ids are unique within a run.  executeStep keeps nothing from one step
\* to the next, so at most one step of a list is a retrying one.
StepLists ==
    UNION {{[i \in 1..n |-> [id |-> i,
                             optional |-> f[i].optional,
                             maxAttempts |-> f[i].maxAttempts,
                             delayMs |-> f[i].delayMs,
                             retryOnTimeout |-> f[i].retryOnTimeout]]
            : f \in {g \in [1..n -> PlainSteps \cup RetryingSteps] :
                        Cardinality({i \in 1..n : g[i] \in RetryingSteps}) <= 1}}
           : n \in 0..MaxSteps}

Max(a, b) == IF a >= b THEN a ELSE b

\* normalizeRetryPolicy without the lower bound of 1 on maxAttempts.
normalizeRetryPolicy_NoFloor(step) ==
    [maxAttempts |-> step.maxAttempts,
     delayMs |-> Max(0, step.delayMs),
     retryOnTimeout |-> step.retryOnTimeout]

normalizeRetryPolicy(step) ==
    [maxAttempts |-> Max(1, step.maxAttempts),
     delayMs |-> Max(0, step.delayMs),
     retryOnTimeout |-> step.retryOnTimeout]

\* buildStepResult with retried computed as attempts > 0.
buildStepResult_RetriedFromZero(step, status, reason, n, output) ==
    [id |-> step.id,
     status |-> status,
     reason |-> reason,
     attempts |-> n,
     retried |-> n > 0,
     output |-> output,
     metrics |-> resolveMetrics(step)]

\* buildStepResult counting a passed step without a metric as failed.
buildStepResult_MetricsDecide(step, status, reason, n, output) ==
    [id |-> step.id,
     status |-> IF status = "passed" /\ resolveMetrics(step) = NoMetrics
                THEN "failed" ELSE status,
     reason |-> IF status = "passed" /\ resolveMetrics(step) = NoMetrics
                THEN "command_failed" ELSE reason,
     attempts |-> n,
     retried |-> n > 1,
     output |-> output,
     metrics |-> resolveMetrics(step)]

buildStepResult(step, status, reason, n, output) ==
    [id |-> step.id,
     status |-> status,
     reason |-> reason,
     attempts |-> n,
     retried |-> n > 1,
     output |-> output,
     metrics |-> resolveMetrics(step)]

\* buildFailedResult reporting a step that was retried as failed, whatever
\* its last attempt did.
buildFailedResult_RetriedIsFailed(step, n, output) ==
    IF step.optional
    THEN buildStepResult(step, "skipped", "optional_step_failed", n, output)
    ELSE IF output.timedOut /\ n = 1
         THEN buildStepResult(step, "timed_out", "command_timeout", n, output)
         ELSE buildStepResult(step, "failed", "command_failed", n, output)

\* buildFailedResult giving the skipped result of an optional step no reason.
buildFailedResult_SkippedUnreasoned(step, n, output) ==
    IF step.optional
    THEN buildStepResult(step, "skipped", "none", n, output)
    ELSE IF output.timedOut
         THEN buildStepResult(step, "timed_out", "command_timeout", n, output)
         ELSE buildStepResult(step, "failed", "command_failed", n, output)

\* buildFailedResult with the timeout classification ahead of the optional one.
buildFailedResult_TimeoutFirst(step, n, output) ==
    IF output.timedOut
    THEN [id |-> step.id, status |-> "timed_out", reason |-> "command_timeout",
          attempts |-> n, retried |-> n > 1, output |-> output,
          metrics |-> resolveMetrics(step)]
    ELSE IF step.optional
         THEN [id |-> step.id, status |-> "skipped", reason |-> "optional_step_failed",
               attempts |-> n, retried |-> n > 1, output |-> output,
          metrics |-> resolveMetrics(step)]
         ELSE [id |-> step.id, status |-> "failed", reason |-> "command_failed",
               attempts |-> n, retried |-> n > 1, output |-> output,
          metrics |-> resolveMetrics(step)]

buildFailedResult(step, n, output) ==
    IF step.optional
    THEN buildStepResult(step, "skipped", "optional_step_failed", n, output)
    ELSE IF output.timedOut
         THEN buildStepResult(step, "timed_out", "command_timeout", n, output)
         ELSE buildStepResult(step, "failed", "command_failed", n, output)

\* canRetry without the test of attempts against maxAttempts.
canRetry_PastLimit(policy, n, execution) ==
    /\ (~execution.timedOut \/ policy.retryOnTimeout)
    /\ policy.maxAttempts > 1

\* canRetry comparing the attempt about to be made with maxAttempts.
canRetry_OffByOne(policy, n, execution) ==
    /\ n + 1 < policy.maxAttempts
    /\ (~execution.timedOut \/ policy.retryOnTimeout)
    /\ policy.maxAttempts > 1

\* canRetry that retries a timeout whatever retryOnTimeout says.
canRetry_AnyTimeout(policy, n, execution) ==
    /\ n < policy.maxAttempts
    /\ policy.maxAttempts > 1

\* The retry decision of executeStep after a failed attempt number n.
canRetry(policy, n, execution) ==
    LET timedOut == execution.timedOut
        canRetryTimeout == policy.retryOnTimeout /\ timedOut
        canRetryFailure == ~timedOut
    IN  /\ n < policy.maxAttempts
        /\ (canRetryFailure \/ canRetryTimeout)
        /\ policy.maxAttempts > 1

CountStatus(results, status) ==
    Cardinality({i \in 1..Len(results) : results[i].status = status})

\* buildSummary leaving the skipped steps out of its counts.
buildSummary_SkippedUncounted(results) ==
    [total |-> Len(results),
     passed |-> CountStatus(results, "passed"),
     failed |-> CountStatus(results, "failed"),
     skipped |-> 0,
     timedOut |-> CountStatus(results, "timed_out")]

buildSummary(results) ==
    [total |-> Len(results),
     passed |-> CountStatus(results, "passed"),
     failed |-> CountStatus(results, "failed"),
     skipped |-> CountStatus(results, "skipped"),
     timedOut |-> CountStatus(results, "timed_out")]

\* The exit code derived from the failed count alone.
exitCodeOf_FailedOnly(summary) ==
    IF summary.failed > 0 THEN 1 ELSE 0

exitCodeOf(summary) ==
    IF summary.failed > 0 \/ summary.timedOut > 0 THEN 1 ELSE 0

\* The hard-failure test without timed_out.
isHardFailure_FailedOnly(stepResult) ==
    stepResult.status = "failed"

isHardFailure(stepResult) ==
    stepResult.status = "failed" \/ stepResult.status = "timed_out"

\* The loop of run() breaking on a hard failure whatever continueOnError is.
stopsAfter_Always(stepResult) == isHardFailure(stepResult)

\* The loop of run() stops after this step result.
stopsAfter(stepResult) == ~continueOnError /\ isHardFailure(stepResult)

Ev(kind, i, outcome) == [kind |-> kind, index |-> i, outcome |-> outcome]

\* run() returning its result without the pipeline-complete notification.
Complete_NoNotify(evs) ==
    LET summary == buildSummary(stepResults)
    IN  /\ result' = <<[steps |-> stepResults,
                        summary |-> summary,
                        exitCode |-> exitCodeOf(summary)]>>
        /\ events' = evs
        /\ pc' = "done"
        /\ UNCHANGED <<index, attempts, lastExecution, stepResults>>

\* run() from the end of its loop: summary, exit code, result, pipeline-complete.
Complete(evs) ==
    LET summary == buildSummary(stepResults)
    IN  /\ result' = <<[steps |-> stepResults,
                        summary |-> summary,
                        exitCode |-> exitCodeOf(summary)]>>
        /\ events' = Append(evs, Ev("pipelineComplete", 0, NoOutcome))
        /\ pc' = "done"
        /\ UNCHANGED <<index, attempts, lastExecution, stepResults>>

\* executeStep returns stepResult for step i: run() pushes it and awaits the
\* step-complete notification.
StepDone(i, stepResult, n, last, evs) ==
    /\ index' = i
    /\ attempts' = n
    /\ lastExecution' = last
    /\ stepResults' = Append(stepResults, stepResult)
    /\ events' = Append(evs, Ev("stepComplete", i, NoOutcome))
    /\ pc' = "stepComplete"
    /\ UNCHANGED result

\* The while loop calling the executor without awaiting it: every remaining
\* attempt is started at once.
LoopHead_NoAwait(i, n, last, evs) ==
    LET max == normalizeRetryPolicy(steps[i]).maxAttempts
    IN  IF n < max
        THEN /\ index' = i
             /\ attempts' = max
             /\ lastExecution' = last
             /\ events' = evs \o [k \in 1..(max - n) |-> Ev("exec", i, NoOutcome)]
             /\ pc' = "exec"
             /\ UNCHANGED <<stepResults, result>>
        ELSE StepDone(i, buildStepResult(steps[i], "failed", "command_failed", n, last),
                      n, last, Append(evs, Ev("fallback", i, last)))

\* The head of executeStep's while loop for step i after n attempts: the next
\* executor call, or the defensive fallback once the guard is false (logged
\* as a fallback event with the output it reports).
LoopHead(i, n, last, evs) ==
    IF n < normalizeRetryPolicy(steps[i]).maxAttempts
    THEN /\ index' = i
         /\ attempts' = n + 1
         /\ lastExecution' = last
         /\ events' = Append(evs, Ev("exec", i, NoOutcome))
         /\ pc' = "exec"
         /\ UNCHANGED <<stepResults, result>>
    ELSE StepDone(i, buildStepResult(steps[i], "failed", "command_failed", n, last),
                  n, last, Append(evs, Ev("fallback", i, last)))

\* The loop iteration without the step-start notification.
BeginStep_NoStart(i, evs) ==
    LoopHead(i, 0, createFallbackExecutionResult, evs)

\* One loop iteration of run() for step i up to its first await that is not a
\* notification: step-start, then executeStep from its beginning.
BeginStep(i, evs) ==
    LoopHead(i, 0, createFallbackExecutionResult,
             Append(evs, Ev("stepStart", i, NoOutcome)))

\* run() is called: pipeline-start, then the first iteration or, with no
\* steps, straight to the result.
Run ==
    /\ pc = "created"
    /\ LET evs == Append(events, Ev("pipelineStart", 0, NoOutcome))
       IN  IF Len(steps) = 0 THEN Complete(evs) ELSE BeginStep(1, evs)
    /\ UNCHANGED <<steps, continueOnError, parserResolver>>

\* executeStep calling sleep before a retry also when the delay is 0.
ExecutorResolves_SleepsOnZero(execution) ==
    /\ pc = "exec"
    /\ LET step == steps[index]
           policy == normalizeRetryPolicy(step)
           evs == Append(events, Ev("resolved", index, execution))
       IN  IF execution.successful
           THEN StepDone(index,
                         buildStepResult(step, "passed", "none", attempts, execution),
                         attempts, execution, evs)
           ELSE IF canRetry(policy, attempts, execution)
                THEN IF policy.delayMs >= 0
                     THEN /\ pc' = "sleep"
                          /\ lastExecution' = execution
                          /\ events' = Append(evs, Ev("sleep", index, [ms |-> policy.delayMs]))
                          /\ UNCHANGED <<index, attempts, stepResults, result>>
                     ELSE LoopHead(index, attempts, execution, evs)
                ELSE StepDone(index, buildFailedResult(step, attempts, execution),
                              attempts, execution, evs)
    /\ UNCHANGED <<steps, continueOnError, parserResolver>>

\* The executor's promise resolves with execution; executeStep runs on to its
\* next await (sleep or the next executor call) or returns to run().
ExecutorResolves(execution) ==
    /\ pc = "exec"
    /\ LET step == steps[index]
           policy == normalizeRetryPolicy(step)
           evs == Append(events, Ev("resolved", index, execution))
       IN  IF execution.successful
           THEN StepDone(index,
                         buildStepResult(step, "passed", "none", attempts, execution),
                         attempts, execution, evs)
           ELSE IF canRetry(policy, attempts, execution)
                THEN IF policy.delayMs > 0
                     THEN /\ pc' = "sleep"
                          /\ lastExecution' = execution
                          /\ events' = Append(evs, Ev("sleep", index, [ms |-> policy.delayMs]))
                          /\ UNCHANGED <<index, attempts, stepResults, result>>
                     ELSE LoopHead(index, attempts, execution, evs)
                ELSE StepDone(index, buildFailedResult(step, attempts, execution),
                              attempts, execution, evs)
    /\ UNCHANGED <<steps, continueOnError, parserResolver>>

\* The inter-attempt sleep resolves: the loop continues with the next attempt.
SleepResolves ==
    /\ pc = "sleep"
    /\ LoopHead(index, attempts, lastExecution, events)
    /\ UNCHANGED <<steps, continueOnError, parserResolver>>

\* The step-complete notification has been delivered: the hard-failure check,
\* then the next iteration or the end of the loop.
StepCompleteResolves ==
    /\ pc = "stepComplete"
    /\ IF stopsAfter(stepResults[Len(stepResults)]) \/ index = Len(steps)
       THEN Complete(events)
       ELSE BeginStep(index + 1, events)
    /\ UNCHANGED <<steps, continueOnError, parserResolver>>

InitRun ==
    /\ steps \in StepLists
    /\ continueOnError \in BOOLEAN
    /\ pc = "created"
    /\ index = 0
    /\ attempts = 0
    /\ lastExecution = createFallbackExecutionResult
    /\ stepResults = <<>>
    /\ result = <<>>
    /\ events = <<>>

\* ------------------------------------------------------------- two runs
VARIABLES
    runNo,      \* 1 during the first run() of the step definitions, 2 during the second
    oracle,     \* what the executor returned, by step and attempt number
    firstRun,     \* <<>>, then <<the PipelineRunResult of the first run>>
    firstResolver \* the parser resolver of the first run

tvars == <<runNo, oracle, firstRun, firstResolver>>

\* A deterministic executor: the same outcome for the same step and attempt.
executorReturns(execution) ==
    /\ \A o \in oracle :
          (o.index = index /\ o.attempt = attempts) => o.outcome = execution
    /\ oracle' = oracle \cup {[index |-> index, attempt |-> attempts, outcome |-> execution]}
    /\ UNCHANGED <<runNo, firstRun, firstResolver>>

\* A second run() whose stepResults is not a fresh list.
RunAgain_KeepsResults(resolver) ==
    /\ pc = "done"
    /\ runNo = 1
    /\ runNo' = 2
    /\ firstRun' = result
    /\ firstResolver' = parserResolver
    /\ parserResolver' = resolver
    /\ pc' = "created"
    /\ index' = 0
    /\ attempts' = 0
    /\ lastExecution' = createFallbackExecutionResult
    /\ result' = <<>>
    /\ events' = <<>>
    /\ UNCHANGED <<steps, continueOnError, oracle, stepResults>>

\* The same step definitions are given to a second runner, with the resolver
\* given, and run() is called: its locals are fresh.
RunAgain(resolver) ==
    /\ pc = "done"
    /\ runNo = 1
    /\ runNo' = 2
    /\ firstRun' = result
    /\ firstResolver' = parserResolver
    /\ parserResolver' = resolver
    /\ pc' = "created"
    /\ index' = 0
    /\ attempts' = 0
    /\ lastExecution' = createFallbackExecutionResult
    /\ stepResults' = <<>>
    /\ result' = <<>>
    /\ events' = <<>>
    /\ UNCHANGED <<steps, continueOnError, oracle>>

InitTwin ==
    /\ runNo = 1
    /\ oracle = {}
    /\ firstRun = <<>>
    /\ firstResolver = "absent"

\* No second run is under observation.
NoTwin ==
    /\ runNo = 0
    /\ oracle = {}
    /\ firstRun = <<>>
    /\ firstResolver = "absent"

\* -------------------------------------------------------------- watch mode
\* Non-ignored change events one watch session receives.
MaxChanges == 3

VARIABLES
    wpc,              \* runWatchLoop: initial | watching | returned
    lastExitCode,     \* exit code of the run that completed last, -1 before any
    running,          \* runWithLock's lock
    rerunPending,     \* a rerun was requested while the lock was held
    debounceHandle,   \* 0 for null, else the id of the timer set last
    timers,           \* ids of the debounce timers set and neither fired nor cleared
    watcherOpen,      \* the fs watcher exists and is not closed
    finished,         \* stop() has run
    returnValue,      \* what runWatchLoop returned, -1 before it returns
    inFlight,         \* the execute() calls that have not returned
    runsStarted,      \* execute() calls made so far
    changes,          \* non-ignored change events so far
    bursts,           \* of these, the ones that found no timer pending
    requests,         \* runWithLock calls so far
    queued,           \* runWithLock calls turned away since the last run started
    cancelled,        \* timers cleared by stop()
    seenAtStart,      \* the value of changes when the newest execute() was called
    completedCodes,   \* exit codes of the execute() calls that returned, in order
    stoppedAfter,     \* how many of them had returned when stop() ran, 0 before
    lastPath,         \* the path the fs.watch listener was called with last
    watcherSupported, \* watcher.supported: unknown before createWatcher, then yes | no
    handlers,         \* stop is registered for SIGINT and SIGTERM
    stopCause         \* none, then what called stop() first

wvars == <<wpc, lastExitCode, running, rerunPending, debounceHandle, timers,
           watcherOpen, finished, returnValue, inFlight, runsStarted, changes,
           bursts, requests, queued, cancelled, seenAtStart, completedCodes,
           stoppedAfter, lastPath, watcherSupported, handlers, stopCause>>

DEFAULT_IGNORED_SEGMENTS ==
    {"node_modules", ".git", "dist", "coverage", "out", "build", ".tmp", ".vite",
     ".vite-temp", ".turbo"}

\* File names ending in one of DEFAULT_IGNORED_FILE_SUFFIXES, among WatchPaths.
IgnoredSuffixNames == {"tsconfig.tsbuildinfo"}

\* Changed paths as their non-empty segments; <<>> is a null fileName.
WatchPaths ==
    {<<>>, <<"src", "index.ts">>, <<"ci.config.json">>, <<"node_modules", "a", "index.js">>,
     <<"packages", "app", "dist", "index.js">>, <<"tsconfig.tsbuildinfo">>}

\* The matcher of createWatchIgnoreMatcher with no custom exclude patterns.
shouldIgnorePath(segments) ==
    \/ \E i \in 1..Len(segments) : segments[i] \in DEFAULT_IGNORED_SEGMENTS
    \/ Len(segments) > 0 /\ segments[Len(segments)] \in IgnoredSuffixNames

\* execute() is called: a pipeline run starts.
StartRun(flight) ==
    /\ runsStarted' = runsStarted + 1
    /\ inFlight' = flight \cup {[id |-> runsStarted + 1, phase |-> "steps", exitCode |-> -1]}
    /\ seenAtStart' = changes

\* The do-while body without the reset of rerunPending.
lockedIteration_KeepsFlag(flight) ==
    /\ UNCHANGED rerunPending
    /\ runsStarted' = runsStarted + 1
    /\ inFlight' = flight \cup {[id |-> runsStarted + 1, phase |-> "steps", exitCode |-> -1]}
    /\ seenAtStart' = changes
    /\ queued' = 0

\* One iteration of the do-while body up to its await.
lockedIteration(flight) ==
    /\ rerunPending' = FALSE
    /\ StartRun(flight)
    /\ queued' = 0

\* runWithLock without the test of the lock.
runWithLock_NoLock ==
    /\ running' = TRUE
    /\ rerunPending' = FALSE
    /\ runsStarted' = runsStarted + 1
    /\ inFlight' = inFlight \cup {[id |-> runsStarted + 1, phase |-> "steps", exitCode |-> -1]}
    /\ seenAtStart' = changes
    /\ queued' = 0

\* runWithLock returning at once when the lock is held, the request forgotten.
runWithLock_DropsRequest ==
    IF running
    THEN UNCHANGED <<running, rerunPending, queued, inFlight, runsStarted, seenAtStart>>
    ELSE /\ running' = TRUE
         /\ rerunPending' = FALSE
         /\ runsStarted' = runsStarted + 1
         /\ inFlight' = inFlight \cup {[id |-> runsStarted + 1, phase |-> "steps", exitCode |-> -1]}
         /\ seenAtStart' = changes
         /\ queued' = 0

\* runWithLock up to its first await.
runWithLock ==
    IF running
    THEN /\ rerunPending' = TRUE
         /\ queued' = queued + 1
         /\ UNCHANGED <<running, inFlight, runsStarted, seenAtStart>>
    ELSE /\ running' = TRUE
         /\ lockedIteration(inFlight)

\* The change callback without clearTimeout.
onRelevantChange_NoClear ==
    /\ timers' = timers \cup {changes + 1}
    /\ debounceHandle' = changes + 1

\* The callback runWatchLoop gives createWatcher.
onRelevantChange ==
    /\ timers' = (IF debounceHandle # 0 THEN timers \ {debounceHandle} ELSE timers)
                    \cup {changes + 1}
    /\ debounceHandle' = changes + 1

\* A run in flight builds its result and notifies pipeline-complete.
RunBuildsResult(r, code) ==
    /\ r \in inFlight
    /\ r.phase = "steps"
    /\ inFlight' = (inFlight \ {r}) \cup {[r EXCEPT !.phase = "completing", !.exitCode = code]}
    /\ UNCHANGED <<wpc, lastExitCode, running, rerunPending, debounceHandle, timers,
                   watcherOpen, finished, returnValue, runsStarted, changes, bursts,
                   requests, queued, cancelled, seenAtStart, completedCodes,
                   stoppedAfter, lastPath>>
    /\ UNCHANGED <<watcherSupported, handlers, stopCause>>

\* The initial execute() returns and runWatchLoop goes on to wait for stop()
\* whether the watcher is supported or not.
InitialRunReturns_WaitsAnyway(r, supported) ==
    /\ wpc = "initial"
    /\ r \in inFlight
    /\ r.phase = "completing"
    /\ inFlight' = inFlight \ {r}
    /\ lastExitCode' = r.exitCode
    /\ completedCodes' = Append(completedCodes, r.exitCode)
    /\ watcherSupported' = IF supported THEN "yes" ELSE "no"
    /\ wpc' = "watching"
    /\ watcherOpen' = supported
    /\ handlers' = TRUE
    /\ UNCHANGED returnValue
    /\ UNCHANGED <<running, rerunPending, debounceHandle, timers, finished, runsStarted,
                   changes, bursts, requests, queued, cancelled, seenAtStart,
                   stoppedAfter, lastPath, stopCause>>

\* The initial execute() returns: runWatchLoop records its exit code and
\* creates the watcher; it registers stop and waits, or returns when
\* recursive watching is unsupported.
InitialRunReturns(r, supported) ==
    /\ wpc = "initial"
    /\ r \in inFlight
    /\ r.phase = "completing"
    /\ inFlight' = inFlight \ {r}
    /\ lastExitCode' = r.exitCode
    /\ completedCodes' = Append(completedCodes, r.exitCode)
    /\ watcherSupported' = IF supported THEN "yes" ELSE "no"
    /\ IF supported
       THEN /\ wpc' = "watching"
            /\ watcherOpen' = TRUE
            /\ handlers' = TRUE
            /\ UNCHANGED returnValue
       ELSE /\ wpc' = "returned"
            /\ returnValue' = r.exitCode
            /\ UNCHANGED <<watcherOpen, handlers>>
    /\ UNCHANGED <<running, rerunPending, debounceHandle, timers, finished, runsStarted,
                   changes, bursts, requests, queued, cancelled, seenAtStart,
                   stoppedAfter, lastPath, stopCause>>

\* The listener calling onRelevantChange without asking the matcher.
Change_NoFilter(path) ==
    /\ watcherOpen
    /\ lastPath' = path
    /\ IF path = <<>>
       THEN UNCHANGED <<debounceHandle, timers, changes, bursts>>
       ELSE /\ changes < MaxChanges
            /\ onRelevantChange
            /\ changes' = changes + 1
            /\ bursts' = IF timers = {} THEN bursts + 1 ELSE bursts
    /\ UNCHANGED <<wpc, lastExitCode, running, rerunPending, watcherOpen, finished,
                   returnValue, inFlight, runsStarted, requests, queued, cancelled,
                   seenAtStart, completedCodes, stoppedAfter>>
    /\ UNCHANGED <<watcherSupported, handlers, stopCause>>

\* The fs.watch listener of createWatcher is called for a changed path.
Change(path) ==
    /\ watcherOpen
    /\ lastPath' = path
    /\ IF path = <<>> \/ shouldIgnorePath(path)
       THEN UNCHANGED <<debounceHandle, timers, changes, bursts>>
       ELSE /\ changes < MaxChanges
            /\ onRelevantChange
            /\ changes' = changes + 1
            /\ bursts' = IF timers = {} THEN bursts + 1 ELSE bursts
    /\ UNCHANGED <<wpc, lastExitCode, running, rerunPending, watcherOpen, finished,
                   returnValue, inFlight, runsStarted, requests, queued, cancelled,
                   seenAtStart, completedCodes, stoppedAfter>>
    /\ UNCHANGED <<watcherSupported, handlers, stopCause>>

\* A pending debounce timer fires: its callback calls runWithLock.
TimerFires(t) ==
    /\ t \in timers
    /\ timers' = timers \ {t}
    /\ requests' = requests + 1
    /\ runWithLock
    /\ UNCHANGED <<wpc, lastExitCode, debounceHandle, watcherOpen, finished, returnValue,
                   changes, bursts, cancelled, completedCodes, stoppedAfter, lastPath>>
    /\ UNCHANGED <<watcherSupported, handlers, stopCause>>

\* The do-while of runWithLock looping whatever rerunPending holds.
LockedRunReturns_LoopsAgain(r) ==
    /\ wpc # "initial"
    /\ r \in inFlight
    /\ r.phase = "completing"
    /\ lastExitCode' = r.exitCode
    /\ completedCodes' = Append(completedCodes, r.exitCode)
    /\ lockedIteration(inFlight \ {r})
    /\ UNCHANGED running
    /\ UNCHANGED <<wpc, debounceHandle, timers, watcherOpen, finished, returnValue,
                   changes, bursts, requests, cancelled, stoppedAfter, lastPath>>
    /\ UNCHANGED <<watcherSupported, handlers, stopCause>>

\* The execute() awaited inside runWithLock returns: the end of one do-while
\* iteration, then the next iteration or the finally block.
LockedRunReturns(r) ==
    /\ wpc # "initial"
    /\ r \in inFlight
    /\ r.phase = "completing"
    /\ lastExitCode' = r.exitCode
    /\ completedCodes' = Append(completedCodes, r.exitCode)
    /\ IF rerunPending
       THEN /\ lockedIteration(inFlight \ {r})
            /\ UNCHANGED running
       ELSE /\ running' = FALSE
            /\ inFlight' = inFlight \ {r}
            /\ UNCHANGED <<rerunPending, runsStarted, queued, seenAtStart>>
    /\ UNCHANGED <<wpc, debounceHandle, timers, watcherOpen, finished, returnValue,
                   changes, bursts, requests, cancelled, stoppedAfter, lastPath>>
    /\ UNCHANGED <<watcherSupported, handlers, stopCause>>

\* stop() resolving with the exit code of the initial run.
Stop_ReturnsInitial(cause) ==
    /\ wpc = "watching"
    /\ ~finished
    /\ finished' = TRUE
    /\ stopCause' = cause
    /\ handlers' = FALSE
    /\ watcherOpen' = FALSE
    /\ timers' = IF debounceHandle # 0 THEN timers \ {debounceHandle} ELSE timers
    /\ cancelled' = cancelled + Cardinality(timers \cap {debounceHandle})
    /\ wpc' = "returned"
    /\ returnValue' = completedCodes[1]
    /\ stoppedAfter' = Len(completedCodes)
    /\ UNCHANGED <<lastExitCode, running, rerunPending, debounceHandle, inFlight,
                   runsStarted, changes, bursts, requests, queued, seenAtStart,
                   completedCodes, lastPath, watcherSupported>>

\* runWatchLoop returning 1 when a watcher error stopped it.
Stop_ErrorFails(cause) ==
    /\ wpc = "watching"
    /\ ~finished
    /\ finished' = TRUE
    /\ stopCause' = cause
    /\ handlers' = FALSE
    /\ watcherOpen' = FALSE
    /\ timers' = IF debounceHandle # 0 THEN timers \ {debounceHandle} ELSE timers
    /\ cancelled' = cancelled + Cardinality(timers \cap {debounceHandle})
    /\ wpc' = "returned"
    /\ returnValue' = IF cause = "watcherError" THEN 1 ELSE lastExitCode
    /\ stoppedAfter' = Len(completedCodes)
    /\ UNCHANGED <<lastExitCode, running, rerunPending, debounceHandle, inFlight,
                   runsStarted, changes, bursts, requests, queued, seenAtStart,
                   completedCodes, lastPath, watcherSupported>>

\* stop(): SIGINT, SIGTERM or a watcher error while runWatchLoop waits.
Stop(cause) ==
    /\ wpc = "watching"
    /\ ~finished
    /\ finished' = TRUE
    /\ stopCause' = cause
    /\ handlers' = FALSE
    /\ watcherOpen' = FALSE
    /\ timers' = IF debounceHandle # 0 THEN timers \ {debounceHandle} ELSE timers
    /\ cancelled' = cancelled + Cardinality(timers \cap {debounceHandle})
    /\ wpc' = "returned"
    /\ returnValue' = lastExitCode
    /\ stoppedAfter' = Len(completedCodes)
    /\ UNCHANGED <<lastExitCode, running, rerunPending, debounceHandle, inFlight,
                   runsStarted, changes, bursts, requests, queued, seenAtStart,
                   completedCodes, lastPath, watcherSupported>>

StopCauses == {"SIGINT", "SIGTERM", "watcherError"}

\* runWatchLoop is called: the initial execute() is in flight.
InitWatch ==
    /\ wpc = "initial"
    /\ lastExitCode = -1
    /\ running = FALSE
    /\ rerunPending = FALSE
    /\ debounceHandle = 0
    /\ timers = {}
    /\ watcherOpen = FALSE
    /\ finished = FALSE
    /\ returnValue = -1
    /\ inFlight = {[id |-> 1, phase |-> "steps", exitCode |-> -1]}
    /\ runsStarted = 1
    /\ changes = 0
    /\ bursts = 0
    /\ requests = 0
    /\ queued = 0
    /\ cancelled = 0
    /\ seenAtStart = 0
    /\ completedCodes = <<>>
    /\ stoppedAfter = 0
    /\ lastPath = <<>>
    /\ watcherSupported = "unknown"
    /\ handlers = FALSE
    /\ stopCause = "none"

\* ------------------------------------------------------ command executor
\* Chunks one stream of the child delivers before it closes.
MaxChunks == 1
\* Times the close listener is called for one child.
MaxCloseEvents == 2

VARIABLES
    timeoutMs,         \* request.timeoutMs, 0 when absent or not positive
    exitsAlone,        \* the command ends without being signalled
    spawnOk,           \* spawn() started a process
    child,             \* none | spawnFailed | errored | running | exited | closed
    exitStatus,        \* what the exit (then the close) event of the child carries
    stdout,            \* text captured from child.stdout
    stderr,            \* text captured from child.stderr
    timedOut,          \* the local flag the timer callback sets
    error,             \* the local the error listener assigns
    closed,            \* the local flag the close listener sets
    timerPending,      \* timeoutHandle is set and has neither fired nor been cleared
    timerFired,        \* the timer callback has run
    timerFiredAtExit,  \* timerFired when the process ended
    timerFiredAtClose, \* timerFired when the close listener finalised the outcome
    killCalls,         \* child.kill('SIGTERM') calls
    signalled,         \* SIGTERM reached a live process
    closeEvents,       \* close events delivered
    resolveCalls,      \* resolve() calls
    outcome            \* <<>> while the promise is pending, else <<its value>>

request == <<timeoutMs, exitsAlone, spawnOk>>
captured == <<stdout, stderr>>
timer == <<timerPending, timerFired, killCalls, signalled>>
settled == <<closed, resolveCalls, outcome, timerFiredAtClose>>

evars == <<request, child, exitStatus, captured, timedOut, error, timer,
           timerFiredAtExit, closeEvents, settled>>

\* exitCode: number | null.
Null == <<>>
ExitCode(n) == <<n>>
NoSignal == "null"
NoError == "undefined"
NoStatus == [exitCode |-> Null, signal |-> NoSignal]

Chunks == {"a"}
Streams == {"stdout", "stderr"}
TimeoutRequests == {0, 100}

\* A data listener appends the chunk to its stream's text.
StreamData(stream, chunk) ==
    /\ child \in {"running", "exited"}
    /\ IF stream = "stdout"
       THEN /\ Len(stdout) < MaxChunks
            /\ stdout' = Append(stdout, chunk)
            /\ UNCHANGED stderr
       ELSE /\ Len(stderr) < MaxChunks
            /\ stderr' = Append(stderr, chunk)
            /\ UNCHANGED stdout
    /\ UNCHANGED <<request, child, exitStatus, timedOut, error, timer,
                   timerFiredAtExit, closeEvents, settled>>

\* spawn() failed: the child emits error and the listener keeps it.
ChildError(spawnError) ==
    /\ child = "spawnFailed"
    /\ child' = "errored"
    /\ error' = spawnError
    /\ UNCHANGED <<request, exitStatus, captured, timedOut, timer,
                   timerFiredAtExit, closeEvents, settled>>

SpawnErrors == {"ENOENT", "EACCES"}

\* The statuses the process may end with: a code of its own, or SIGTERM once
\* the signal reached it.
ExitStatuses ==
    {[exitCode |-> ExitCode(c), signal |-> NoSignal] : c \in {0, 1}}
        \cup (IF signalled THEN {[exitCode |-> Null, signal |-> "SIGTERM"]} ELSE {})

\* The process ends. Nothing listens to exit: the streams are still open.
ChildExits(status) ==
    /\ child = "running"
    /\ exitsAlone \/ signalled
    /\ child' = "exited"
    /\ exitStatus' = status
    /\ timerFiredAtExit' = timerFired
    /\ UNCHANGED <<request, captured, timedOut, error, timer, closeEvents, settled>>

\* The timer callback keeping timedOut as it is.
TimeoutFires_NoFlag ==
    /\ timerPending
    /\ timerPending' = FALSE
    /\ timerFired' = TRUE
    /\ UNCHANGED timedOut
    /\ killCalls' = killCalls + 1
    /\ signalled' = (signalled \/ child = "running")
    /\ UNCHANGED <<request, child, exitStatus, captured, error, timerFiredAtExit,
                   closeEvents, settled>>

\* The timer callback without child.kill.
TimeoutFires_NoKill ==
    /\ timerPending
    /\ timerPending' = FALSE
    /\ timerFired' = TRUE
    /\ timedOut' = TRUE
    /\ UNCHANGED <<killCalls, signalled>>
    /\ UNCHANGED <<request, child, exitStatus, captured, error, timerFiredAtExit,
                   closeEvents, settled>>

\* The setTimeout callback: the signal reaches the process only while it lives.
TimeoutFires ==
    /\ timerPending
    /\ timerPending' = FALSE
    /\ timerFired' = TRUE
    /\ timedOut' = TRUE
    /\ killCalls' = killCalls + 1
    /\ signalled' = (signalled \/ child = "running")
    /\ UNCHANGED <<request, child, exitStatus, captured, error, timerFiredAtExit,
                   closeEvents, settled>>

\* The value the close listener resolves the promise with.
buildOutcome(exitCode, signal) ==
    [successful |-> ~timedOut /\ exitCode = ExitCode(0) /\ error = NoError,
     timedOut   |-> timedOut,
     exitCode   |-> exitCode,
     signal     |-> signal,
     stdout     |-> stdout,
     stderr     |-> stderr,
     error      |-> error]

\* resolve(value): only the first call settles the promise.
resolve(value) ==
    /\ resolveCalls' = resolveCalls + 1
    /\ outcome' = IF outcome = <<>> THEN <<value>> ELSE outcome

\* The close listener without its closed flag.
onClose_NoGuard(exitCode, signal) ==
    /\ closed' = TRUE
    /\ timerPending' = FALSE
    /\ timerFiredAtClose' = timerFired
    /\ resolve(buildOutcome(exitCode, signal))

\* The close listener leaving the timer set.
onClose_KeepsTimer(exitCode, signal) ==
    IF closed
    THEN UNCHANGED <<settled, timerPending>>
    ELSE /\ closed' = TRUE
         /\ UNCHANGED timerPending
         /\ timerFiredAtClose' = timerFired
         /\ resolve(buildOutcome(exitCode, signal))

\* The close listener.
onClose(exitCode, signal) ==
    IF closed
    THEN UNCHANGED <<settled, timerPending>>
    ELSE /\ closed' = TRUE
         /\ timerPending' = FALSE
         /\ timerFiredAtClose' = timerFired
         /\ resolve(buildOutcome(exitCode, signal))

\* What a close event may carry: the exit status of the process; after a
\* failed spawn no code, or the negative errno of the failure.
CloseStatuses ==
    CASE child = "exited"  -> {exitStatus}
      [] child = "errored" -> {[exitCode |-> c, signal |-> NoSignal] : c \in {Null, ExitCode(-2)}}
      [] child = "closed"  -> {exitStatus}
      [] OTHER             -> {}

\* The child emits close once its streams have ended; the listener is also
\* written for a close event that comes again.
CloseEvent(status) ==
    /\ child \in {"exited", "errored"} \/ (child = "closed" /\ closeEvents < MaxCloseEvents)
    /\ child' = "closed"
    /\ exitStatus' = status
    /\ closeEvents' = closeEvents + 1
    /\ onClose(status.exitCode, status.signal)
    /\ UNCHANGED <<request, captured, timedOut, error, timerFired, killCalls,
                   signalled, timerFiredAtExit>>

\* The executor is called: spawn(), the locals, the timer and the listeners.
InitExec ==
    /\ timeoutMs \in TimeoutRequests
    /\ exitsAlone \in BOOLEAN
    /\ spawnOk \in BOOLEAN
    /\ child = IF spawnOk THEN "running" ELSE "spawnFailed"
    /\ exitStatus = NoStatus
    /\ stdout = <<>>
    /\ stderr = <<>>
    /\ timedOut = FALSE
    /\ error = NoError
    /\ closed = FALSE
    /\ timerPending = (timeoutMs > 0)
    /\ timerFired = FALSE
    /\ timerFiredAtExit = FALSE
    /\ timerFiredAtClose = FALSE
    /\ killCalls = 0
    /\ signalled = FALSE
    /\ closeEvents = 0
    /\ resolveCalls = 0
    /\ outcome = <<>>

\* No executor call is under observation.
NoExec ==
    /\ timeoutMs = 0
    /\ exitsAlone = TRUE
    /\ spawnOk = TRUE
    /\ child = "none"
    /\ exitStatus = NoStatus
    /\ stdout = <<>>
    /\ stderr = <<>>
    /\ timedOut = FALSE
    /\ error = NoError
    /\ closed = FALSE
    /\ timerPending = FALSE
    /\ timerFired = FALSE
    /\ timerFiredAtExit = FALSE
    /\ timerFiredAtClose = FALSE
    /\ killCalls = 0
    /\ signalled = FALSE
    /\ closeEvents = 0
    /\ resolveCalls = 0
    /\ outcome = <<>>

\* ------------------------------------------------------- parser registry
\* Parsers one registry holds.
MaxParsers == 3

VARIABLES
    parsers,       \* StepParserRegistry.parsers, in registration order
    regPc,         \* idle | parsing | returned: where parse(step, output) is
    cursor,        \* position of the for-of loop of parse
    matchCalls,    \* positions of the parsers whose matches(step) was called
    parseCalls,    \* positions of the parsers whose parse(output) was called
    parsed         \* what parse returned: NoMetrics, or the metric of one parser

gvars == <<parsers, regPc, cursor, matchCalls, parseCalls, parsed>>

\* A StepOutputParser for the step and output at hand: what its matches(step)
\* and its parse(output) return.
ParserKinds == [matches : BOOLEAN, yields : BOOLEAN]

\* register(parser).
Register(parser) ==
    /\ regPc = "idle"
    /\ Len(parsers) < MaxParsers
    /\ parsers' = Append(parsers, parser)
    /\ UNCHANGED <<regPc, cursor, matchCalls, parseCalls, parsed>>

\* parse(step, output) is called: the for-of loop starts at the first parser.
ParseCalled ==
    /\ regPc = "idle"
    /\ regPc' = "parsing"
    /\ cursor' = 1
    /\ UNCHANGED <<parsers, matchCalls, parseCalls, parsed>>

\* The loop body returning after the first matching parser, metric or not.
tryParser_NoFallThrough(k) ==
    /\ matchCalls' = Append(matchCalls, k)
    /\ IF ~parsers[k].matches
       THEN /\ cursor' = k + 1
            /\ UNCHANGED <<regPc, parseCalls, parsed>>
       ELSE /\ parseCalls' = Append(parseCalls, k)
            /\ regPc' = "returned"
            /\ parsed' = IF parsers[k].yields THEN MetricsOf(k) ELSE NoMetrics
            /\ UNCHANGED cursor

\* One iteration of the loop of parse, for the parser at position k.
tryParser(k) ==
    /\ matchCalls' = Append(matchCalls, k)
    /\ IF ~parsers[k].matches
       THEN /\ cursor' = k + 1
            /\ UNCHANGED <<regPc, parseCalls, parsed>>
       ELSE /\ parseCalls' = Append(parseCalls, k)
            /\ IF parsers[k].yields
               THEN /\ regPc' = "returned"
                    /\ parsed' = MetricsOf(k)
                    /\ UNCHANGED cursor
               ELSE /\ cursor' = k + 1
                    /\ UNCHANGED <<regPc, parsed>>

LoopIteration ==
    /\ regPc = "parsing"
    /\ cursor <= Len(parsers)
    /\ tryParser(cursor)
    /\ UNCHANGED parsers

\* The loop is over: return null.
LoopExhausted ==
    /\ regPc = "parsing"
    /\ cursor > Len(parsers)
    /\ regPc' = "returned"
    /\ parsed' = NoMetrics
    /\ UNCHANGED <<parsers, cursor, matchCalls, parseCalls>>

\* new StepParserRegistry(parsers).
InitRegistry ==
    /\ parsers \in UNION {[1..n -> ParserKinds] : n \in 0..MaxParsers}
    /\ regPc = "idle"
    /\ cursor = 0
    /\ matchCalls = <<>>
    /\ parseCalls = <<>>
    /\ parsed = NoMetrics

\* No registry is under observation.
NoRegistry ==
    /\ parsers = <<>>
    /\ regPc = "unused"
    /\ cursor = 0
    /\ matchCalls = <<>>
    /\ parseCalls = <<>>
    /\ parsed = NoMetrics

\* ------------------------------------------------------------ command line
\* Arguments on one command line.
MaxArgs == 3

VARIABLES
    argv,                    \* process.argv.slice(2)
    config,                  \* loadedConfig.config as far as read here
    cpc,                     \* start | parsed | threw | running
    options,                 \* what parseCliOptions returned
    effectiveFormat,         \* runCliPipeline's effectiveFormat
    mappedContinueOnError,   \* mappedRun.continueOnError
    apiContinueOnError,      \* options.continueOnError given to the constructor
    runnerContinueOnError    \* this.options.continueOnError of the runner built

cvars == <<argv, config, cpc, options, effectiveFormat, mappedContinueOnError,
           apiContinueOnError, runnerContinueOnError>>

\* An optional property: absent, or present with a value.
Absent == <<>>
Present(v) == <<v>>
\* value ?? fallback
Coalesce(value, fallback) == IF value = Absent THEN fallback ELSE value[1]

Formats == {"pretty", "json"}

\* The arguments tried: flags, values of --format, the --format=<value> form
\* with a valid and an invalid value.
Arguments ==
    {"--fail-fast", "--watch", "--format", "json", "pretty", "--format=json", "--format=xml"}

\* argument.slice('--format='.length) for the arguments that start with it.
formatAssigned(argument) ==
    CASE argument = "--format=json" -> Present("json")
      [] argument = "--format=xml"  -> Present("xml")
      [] OTHER                      -> Absent

Configs ==
    [format : {Absent} \cup {Present(f) : f \in Formats},
     continueOnError : {Absent, Present(TRUE), Present(FALSE)}]

\* The locals of parseCliOptions before its loop.
defaultOptions ==
    [format |-> "pretty", formatProvided |-> FALSE, watch |-> FALSE,
     failFast |-> FALSE, threw |-> FALSE]

\* The loop of parseCliOptions from position i on; threw marks a thrown Error.
RECURSIVE parseFrom(_, _, _)
parseFrom(args, i, opts) ==
    IF i > Len(args)
    THEN opts
    ELSE LET argument == args[i]
         IN  CASE argument = "--watch" ->
                    parseFrom(args, i + 1, [opts EXCEPT !.watch = TRUE])
               [] argument = "--fail-fast" ->
                    parseFrom(args, i + 1, [opts EXCEPT !.failFast = TRUE])
               [] argument = "--format" ->
                    IF i + 1 > Len(args) \/ args[i + 1] \notin Formats
                    THEN [opts EXCEPT !.threw = TRUE]
                    ELSE parseFrom(args, i + 2,
                                   [opts EXCEPT !.format = args[i + 1],
                                                !.formatProvided = TRUE])
               [] formatAssigned(argument) # Absent ->
                    IF formatAssigned(argument)[1] \notin Formats
                    THEN [opts EXCEPT !.threw = TRUE]
                    ELSE parseFrom(args, i + 1,
                                   [opts EXCEPT !.format = formatAssigned(argument)[1],
                                                !.formatProvided = TRUE])
               [] OTHER -> [opts EXCEPT !.threw = TRUE]

parseCliOptions(args) == parseFrom(args, 1, defaultOptions)

\* The entry point parses the arguments; a thrown Error ends it with exit code 1.
ParseArguments ==
    /\ cpc = "start"
    /\ options' = parseCliOptions(argv)
    /\ cpc' = IF parseCliOptions(argv).threw THEN "threw" ELSE "parsed"
    /\ UNCHANGED <<argv, config, effectiveFormat, mappedContinueOnError,
                   apiContinueOnError, runnerContinueOnError>>

\* continueOnError of mapConfigToRun with the configured value first.
mapContinueOnError_ConfigFirst(cfg, failFast) ==
    Coalesce(cfg.continueOnError, ~failFast)

\* continueOnError of mapConfigToRun.
mapContinueOnError(cfg, failFast) ==
    IF failFast THEN FALSE ELSE Coalesce(cfg.continueOnError, TRUE)

\* continueOnError of the PipelineRunner constructor.
constructorContinueOnError(value) == Coalesce(value, TRUE)

\* effectiveFormat of runCliPipeline.
resolveEffectiveFormat(cfg, opts) == Coalesce(cfg.format, opts.format)

\* runCliPipeline up to the runner execute() creates.
RunCliPipeline ==
    /\ cpc = "parsed"
    /\ cpc' = "running"
    /\ effectiveFormat' = resolveEffectiveFormat(config, options)
    /\ mappedContinueOnError' = Present(mapContinueOnError(config, options.failFast))
    /\ runnerContinueOnError' =
          Present(constructorContinueOnError(Present(mapContinueOnError(config, options.failFast))))
    /\ UNCHANGED <<argv, config, options, apiContinueOnError>>

\* A caller of the library creates a runner itself.
CreatePipelineRunner(value) ==
    /\ cpc = "start"
    /\ argv = <<>>
    /\ cpc' = "created"
    /\ apiContinueOnError' = value
    /\ runnerContinueOnError' = Present(constructorContinueOnError(value))
    /\ UNCHANGED <<argv, config, options, effectiveFormat, mappedContinueOnError>>

InitCli ==
    /\ argv \in UNION {[1..n -> Arguments] : n \in 0..MaxArgs}
    /\ config \in Configs
    /\ cpc = "start"
    /\ options = defaultOptions
    /\ effectiveFormat = "pretty"
    /\ mappedContinueOnError = Absent
    /\ apiContinueOnError = Absent
    /\ runnerContinueOnError = Absent

\* No command line is under observation.
NoCli ==
    /\ argv = <<>>
    /\ config = [format |-> Absent, continueOnError |-> Absent]
    /\ cpc = "unused"
    /\ options = defaultOptions
    /\ effectiveFormat = "pretty"
    /\ mappedContinueOnError = Absent
    /\ apiContinueOnError = Absent
    /\ runnerContinueOnError = Absent

\* No runner is under observation.
NoRun ==
    /\ steps = <<>>
    /\ continueOnError = TRUE
    /\ parserResolver = "absent"
    /\ pc = "unused"
    /\ index = 0
    /\ attempts = 0
    /\ lastExecution = createFallbackExecutionResult
    /\ stepResults = <<>>
    /\ result = <<>>
    /\ events = <<>>

\* No watch session is under observation.
NoWatch ==
    /\ wpc = "unused"
    /\ lastExitCode = -1
    /\ running = FALSE
    /\ rerunPending = FALSE
    /\ debounceHandle = 0
    /\ timers = {}
    /\ watcherOpen = FALSE
    /\ finished = FALSE
    /\ returnValue = -1
    /\ inFlight = {}
    /\ runsStarted = 0
    /\ changes = 0
    /\ bursts = 0
    /\ requests = 0
    /\ queued = 0
    /\ cancelled = 0
    /\ seenAtStart = 0
    /\ completedCodes = <<>>
    /\ stoppedAfter = 0
    /\ lastPath = <<>>
    /\ watcherSupported = "unknown"
    /\ handlers = FALSE
    /\ stopCause = "none"

\* ------------------------------------------------- watch ignore matcher
\* Longest watch.exclude pattern, in characters.
MaxPatternLen == 3

VARIABLES
    excludePatterns,  \* watch.exclude as configured: strings as tuples of characters
    customMatchers,   \* the patterns createWatchIgnoreMatcher kept and compiled
    mpc,              \* config | ready
    filePath,         \* the file name the predicate was called with last, <<>> before
    ignored           \* what the predicate returned for it

mvars == <<excludePatterns, customMatchers, mpc, filePath, ignored>>

\* DEFAULT_IGNORED_SEGMENTS, character by character.
DefaultIgnoredSegmentNames ==
    {<<"n", "o", "d", "e", "_", "m", "o", "d", "u", "l", "e", "s">>,
     <<".", "g", "i", "t">>,
     <<"d", "i", "s", "t">>,
     <<"c", "o", "v", "e", "r", "a", "g", "e">>,
     <<"o", "u", "t">>,
     <<"b", "u", "i", "l", "d">>,
     <<".", "t", "m", "p">>,
     <<".", "v", "i", "t", "e">>,
     <<".", "v", "i", "t", "e", "-", "t", "e", "m", "p">>,
     <<".", "t", "u", "r", "b", "o">>}

\* DEFAULT_IGNORED_FILE_SUFFIXES, character by character.
DefaultIgnoredFileSuffixes ==
    {<<".", "t", "s", "b", "u", "i", "l", "d", "i", "n", "f", "o">>,
     <<".", "t", "s", "b", "u", "i", "l", "d", "i", "n", "f", "o", ".", "b", "u", "i", "l", "d">>}

\* Characters of a configured pattern: names, separators, wildcard, dot, blank.
PatternChars == {"a", "b", "/", "*", ".", " ", "\\"}

\* watch.exclude entries: non-empty strings.
ExcludePatterns == UNION {[1..n -> PatternChars] : n \in 1..MaxPatternLen}

\* File names fs.watch reports: relative paths, with backslashes on Windows.
WatchFileNames ==
    {<<"a">>,
     <<"b">>,
     <<"a", "b">>,
     <<"a", "/", "a">>,
     <<"a", "/", "b">>,
     <<"b", "/", "a">>,
     <<"a", "/", "a", "b">>,
     <<"a", "/", "b", "b">>,
     <<"a", "b", "/", "a">>,
     <<"a", "/", "b", "/", "a">>,
     <<"a", "/", "b", "/", "b">>,
     <<"b", "/", "a", "/", "b">>,
     <<"a", "/", "b", "/", "a", "b">>,
     <<"a", "\\", "b">>,
     <<"a", "\\", "b", "\\", "a">>,
     <<"d", "i", "s", "t", "/", "a">>,
     <<"a", "/", ".", "t", "s", "b", "u", "i", "l", "d", "i", "n", "f", "o">>}

normalizeWatchPath(path) ==
    [i \in 1..Len(path) |-> IF path[i] = "\\" THEN "/" ELSE path[i]]

\* String.prototype.trim, with the blank as the only white space.
trim(s) ==
    LET solid == {i \in 1..Len(s) : s[i] # " "}
    IN  IF solid = {} THEN <<>>
        ELSE SubSeq(s, CHOOSE i \in solid : \A j \in solid : i <= j,
                       CHOOSE i \in solid : \A j \in solid : i >= j)

startsWith(s, prefix) ==
    /\ Len(prefix) <= Len(s)
    /\ SubSeq(s, 1, Len(prefix)) = prefix

endsWith(s, suffix) ==
    /\ Len(suffix) <= Len(s)
    /\ SubSeq(s, Len(s) - Len(suffix) + 1, Len(s)) = suffix

stripLeadingCurrentDirectory(pattern) ==
    IF startsWith(pattern, <<".", "/">>) THEN SubSeq(pattern, 3, Len(pattern)) ELSE pattern

containsWildcard(value) == \E i \in 1..Len(value) : value[i] = "*"

includesSlash(value) == \E i \in 1..Len(value) : value[i] = "/"

\* path.split('/').filter(segment => segment.length > 0), cur being the
\* segment read so far.
RECURSIVE splitSegments(_, _)
splitSegments(path, cur) ==
    LET done == IF cur = <<>> THEN <<>> ELSE <<cur>>
    IN  IF path = <<>> THEN done
        ELSE IF Head(path) = "/" THEN done \o splitSegments(Tail(path), <<>>)
        ELSE splitSegments(Tail(path), Append(cur, Head(path)))

\* globToRegExp(pattern).test(value): **/ is (?:.*/)?, ** is .*, * is [^/]*,
\* every other character is itself.
RECURSIVE globMatches(_, _)
globMatches(pattern, value) ==
    LET from(k) == SubSeq(value, k + 1, Len(value))
        after(n) == SubSeq(pattern, n + 1, Len(pattern))
    IN  IF pattern = <<>> THEN value = <<>>
        ELSE IF pattern[1] = "*"
             THEN IF Len(pattern) >= 3 /\ pattern[2] = "*" /\ pattern[3] = "/"
                  THEN \/ globMatches(after(3), value)
                       \/ \E k \in 1..Len(value) :
                              value[k] = "/" /\ globMatches(after(3), from(k))
                  ELSE IF Len(pattern) >= 2 /\ pattern[2] = "*"
                       THEN \E k \in 0..Len(value) : globMatches(after(2), from(k))
                       ELSE \E k \in 0..Len(value) :
                                /\ \A j \in 1..k : value[j] # "/"
                                /\ globMatches(after(1), from(k))
             ELSE /\ value # <<>>
                  /\ value[1] = pattern[1]
                  /\ globMatches(after(1), from(1))

\* The matcher compileExcludePattern(pattern) returns, applied.
compileExcludePattern(pattern, normalizedPath, segments) ==
    LET normalizedPattern == normalizeWatchPath(stripLeadingCurrentDirectory(pattern))
    IN  IF ~containsWildcard(normalizedPattern)
        THEN IF includesSlash(normalizedPattern)
             THEN \/ normalizedPath = normalizedPattern
                  \/ startsWith(normalizedPath, Append(normalizedPattern, "/"))
             ELSE \E i \in 1..Len(segments) : segments[i] = normalizedPattern
        ELSE IF ~includesSlash(normalizedPattern)
             THEN \E i \in 1..Len(segments) : globMatches(normalizedPattern, segments[i])
             ELSE globMatches(normalizedPattern, normalizedPath)

\* The two built-in tests of the predicate.
ignoredByDefault(segments) ==
    \/ \E i \in 1..Len(segments) : segments[i] \in DefaultIgnoredSegmentNames
    \/ \E suffix \in DefaultIgnoredFileSuffixes :
           endsWith(IF segments = <<>> THEN <<>> ELSE segments[Len(segments)], suffix)

\* createWatchIgnoreMatcher: trim the patterns, drop the empty ones, compile.
CreateWatchIgnoreMatcher ==
    /\ mpc = "config"
    /\ customMatchers' = SelectSeq([i \in 1..Len(excludePatterns) |-> trim(excludePatterns[i])],
                                   LAMBDA pattern : Len(pattern) > 0)
    /\ mpc' = "ready"
    /\ UNCHANGED <<excludePatterns, filePath, ignored>>

\* The predicate createWatchIgnoreMatcher returned is called with a file name.
MatcherCalled(name) ==
    /\ mpc = "ready"
    /\ filePath' = name
    /\ LET normalizedPath == normalizeWatchPath(name)
           segments == splitSegments(normalizedPath, <<>>)
       IN  ignored' = (\/ ignoredByDefault(segments)
                       \/ \E i \in 1..Len(customMatchers) :
                              compileExcludePattern(customMatchers[i], normalizedPath, segments))
    /\ UNCHANGED <<excludePatterns, customMatchers, mpc>>

\* watch.exclude is absent or holds one pattern.
InitMatcher ==
    /\ excludePatterns \in {<<>>} \cup {<<pattern>> : pattern \in ExcludePatterns}
    /\ customMatchers = <<>>
    /\ mpc = "config"
    /\ filePath = <<>>
    /\ ignored = FALSE

\* No ignore matcher is under observation.
NoMatcher ==
    /\ excludePatterns = <<>>
    /\ customMatchers = <<>>
    /\ mpc = "unused"
    /\ filePath = <<>>
    /\ ignored = FALSE

\* ----------------------------------------------------- JSON object stream
\* Most characters one parser is fed, and the longest chunk.
MaxStreamLen == 5
MaxChunkLen == 2

VARIABLES
    buffer,           \* JsonObjectStreamParser.buffer, a tuple of characters
    scanIndex,        \* 0-based, as in the source
    collecting,
    objectStartIndex, \* 0-based, -1 for none
    objectDepth,
    inString,
    escaping,
    fed,              \* every character fed so far, the stream
    returned          \* every object feed() returned so far, as its text, in order

jvars == <<buffer, scanIndex, collecting, objectStartIndex, objectDepth, inString,
           escaping, fed, returned>>

MAX_IDLE_BUFFER_LENGTH == 4096

\* Characters of the child's stdout: braces, quote, backslash, colon, and x
\* for every other character.
StreamChars == {"{", "}", "\"", "\\", ":", "x"}

StreamChunks == UNION {[1..n -> StreamChars] : n \in 0..MaxChunkLen}

\* JSON.parse on texts of StreamChars, where a value is a string or an object
\* and an object has at most one member.  Each operator reads from the
\* 1-based position i and gives the position of the last character of what it
\* read, 0 when the text is not JSON there, -1 when the text ends too early.
RECURSIVE jsonStringEnd(_, _)
jsonStringEnd(text, j) ==
    IF j > Len(text) THEN -1
    ELSE IF text[j] = "\"" THEN j
    ELSE IF text[j] = "\\"
         THEN IF j + 1 > Len(text) THEN -1
              ELSE IF text[j + 1] \in {"\"", "\\"} THEN jsonStringEnd(text, j + 2)
              ELSE 0
    ELSE jsonStringEnd(text, j + 1)

jsonString(text, i) ==
    IF i > Len(text) THEN -1
    ELSE IF text[i] # "\"" THEN 0
    ELSE jsonStringEnd(text, i + 1)

RECURSIVE jsonObject(_, _)
jsonObject(text, i) ==
    LET jsonValue(k) ==
            IF k > Len(text) THEN -1
            ELSE IF text[k] = "\"" THEN jsonString(text, k)
            ELSE IF text[k] = "{" THEN jsonObject(text, k)
            ELSE 0
        closing(v) ==
            IF v <= 0 THEN v
            ELSE IF v + 1 > Len(text) THEN -1
            ELSE IF text[v + 1] = "}" THEN v + 1
            ELSE 0
        member(k) ==
            IF k <= 0 THEN k
            ELSE IF k + 1 > Len(text) THEN -1
            ELSE IF text[k + 1] # ":" THEN 0
            ELSE closing(jsonValue(k + 2))
    IN  IF i > Len(text) THEN -1
        ELSE IF text[i] # "{" THEN 0
        ELSE IF i + 1 > Len(text) THEN -1
        ELSE IF text[i + 1] = "}" THEN i + 1
        ELSE IF text[i + 1] = "\"" THEN member(jsonString(text, i + 1))
        ELSE 0

\* tryParseJsonObject: <<the object>> (kept as its text), or <<>> for null.
tryParseJsonObject(value) ==
    IF jsonObject(value, 1) = Len(value) THEN <<value>> ELSE <<>>

\* The parser's fields as one record.
ParserState(buf, col, start, depth, str, esc) ==
    [buffer |-> buf, collecting |-> col, objectStartIndex |-> start,
     objectDepth |-> depth, inString |-> str, escaping |-> esc]

\* The for loop of feed() from the 0-based index at on: the parser's fields and
\* parsedObjects when the loop ends.
RECURSIVE scanFrom(_, _, _)
scanFrom(p, at, parsedObjects) ==
    IF at >= Len(p.buffer) THEN [parser |-> p, parsedObjects |-> parsedObjects]
    ELSE LET character == p.buffer[at + 1]
         IN  IF ~p.collecting
             THEN IF character # "{"
                  THEN scanFrom(p, at + 1, parsedObjects)
                  ELSE scanFrom(ParserState(p.buffer, TRUE, at, 1, FALSE, FALSE),
                                at + 1, parsedObjects)
             ELSE IF p.inString
             THEN IF p.escaping
                  THEN scanFrom([p EXCEPT !.escaping = FALSE], at + 1, parsedObjects)
                  ELSE IF character = "\\"
                  THEN scanFrom([p EXCEPT !.escaping = TRUE], at + 1, parsedObjects)
                  ELSE IF character = "\""
                  THEN scanFrom([p EXCEPT !.inString = FALSE], at + 1, parsedObjects)
                  ELSE scanFrom(p, at + 1, parsedObjects)
             ELSE IF character = "\""
             THEN scanFrom([p EXCEPT !.inString = TRUE], at + 1, parsedObjects)
             ELSE IF character = "{"
             THEN scanFrom([p EXCEPT !.objectDepth = @ + 1], at + 1, parsedObjects)
             ELSE IF character = "}"
             THEN IF p.objectDepth - 1 = 0
                  THEN LET objectText == SubSeq(p.buffer, p.objectStartIndex + 1, at + 1)
                       IN  scanFrom(ParserState(SubSeq(p.buffer, at + 2, Len(p.buffer)),
                                                FALSE, -1, 0, FALSE, FALSE),
                                    0, parsedObjects \o tryParseJsonObject(objectText))
                  ELSE scanFrom([p EXCEPT !.objectDepth = @ - 1], at + 1, parsedObjects)
             ELSE scanFrom(p, at + 1, parsedObjects)

\* feed(chunk): append, scan, drop an idle buffer's old text, return the
\* objects found.
Feed(chunk) ==
    /\ Len(fed) + Len(chunk) <= MaxStreamLen
    /\ fed' = fed \o chunk
    /\ IF Len(chunk) = 0
       THEN UNCHANGED <<buffer, scanIndex, collecting, objectStartIndex, objectDepth,
                        inString, escaping, returned>>
       ELSE LET scanned == scanFrom(ParserState(buffer \o chunk, collecting, objectStartIndex,
                                                objectDepth, inString, escaping),
                                    scanIndex, <<>>)
                p == scanned.parser
                idle == ~p.collecting /\ Len(p.buffer) > MAX_IDLE_BUFFER_LENGTH
                kept == IF idle
                        THEN SubSeq(p.buffer, Len(p.buffer) - MAX_IDLE_BUFFER_LENGTH + 1,
                                    Len(p.buffer))
                        ELSE p.buffer
            IN  /\ buffer' = kept
                /\ scanIndex' = Len(kept)
                /\ collecting' = p.collecting
                /\ objectStartIndex' = p.objectStartIndex
                /\ objectDepth' = p.objectDepth
                /\ inString' = p.inString
                /\ escaping' = p.escaping
                /\ returned' = returned \o scanned.parsedObjects

\* new JsonObjectStreamParser()
InitJson ==
    /\ buffer = <<>>
    /\ scanIndex = 0
    /\ collecting = FALSE
    /\ objectStartIndex = -1
    /\ objectDepth = 0
    /\ inString = FALSE
    /\ escaping = FALSE
    /\ fed = <<>>
    /\ returned = <<>>

\* No stream parser is under observation.
NoJson ==
    /\ buffer = <<>>
    /\ scanIndex = -1
    /\ collecting = FALSE
    /\ objectStartIndex = -1
    /\ objectDepth = 0
    /\ inString = FALSE
    /\ escaping = FALSE
    /\ fed = <<>>
    /\ returned = <<>>

\* ------------------------------------------------- VS Code view model
\* packages/ci-runner-vscode/src/extension.ts, class CiRunnerViewModel: the
\* runs it starts and stops, and the events of their child processes.

VARIABLES
    stateByEntry,       \* entry key -> Absent or Present(ConfigState)
    runningByEntry,     \* entry key -> run id of the registered run, 0 if none
    terminatedRunIds,   \* run ids a stop was requested for
    runCounter,         \* the last run id handed out
    children,           \* run id -> the child process spawned for it
    lastEvent           \* the child process event the last step delivered, if any

\* How many runs the view model starts.
MaxViewRuns == 2

xvars == <<stateByEntry, runningByEntry, terminatedRunIds, runCounter,
           children, lastEvent>>

\* type RunProfile; 'fail-fast' is left out: it differs from 'standard' only
\* in the CLI's arguments, and the handlers treat both alike.
RunProfiles == {"standard", "watch"}

\* TargetEntry.key is `${config.uri}::${targetSuffix}`: two targets of one
\* config file.
EntryKeys == {<<"A", "t1">>, <<"A", "t2">>}

\* runningEntryKey.startsWith(`${entry.config.uri.toString()}::`)
startsWithConfigPrefix(runningEntryKey, entryKey) ==
    runningEntryKey[1] = entryKey[1]

\* What a complete line of a child's standard output is to the view model:
\* isWatchRunStartLine, parseWatchRunExitCodeFromLine 0 / 1, or neither; "none"
\* is a chunk that completes no line.
StdoutLines == {"none", "other", "ci-runner: executing", "Result: PASS", "Result: FAIL"}

isWatchRunStartLine(line) == line = "ci-runner: executing"

parseWatchRunExitCodeFromLine(line) ==
    IF line = "Result: PASS" THEN Present(0)
    ELSE IF line = "Result: FAIL" THEN Present(1)
    ELSE Absent

\* The exit codes a 'close' event reports: 0, 1, or anything else (another
\* code, or null with a signal).
CloseCodes == {0, 1, 2}

\* this.stateByEntry.get(key)?.lastExitCode and ?.errorMessage
lastExitCodeOf(states, key) ==
    IF states[key] = Absent THEN Absent ELSE states[key][1].lastExitCode

errorMessageOf(states, key) ==
    IF states[key] = Absent THEN Absent ELSE states[key][1].errorMessage

ConfigState(runStatus, runProfile, exitCodeField, message, active) ==
    [status |-> runStatus, profile |-> runProfile, lastExitCode |-> exitCodeField,
     errorMessage |-> message, watchRunActive |-> active]

\* setState: the entry's state is replaced as a whole.
setState(states, key, state) == [states EXCEPT ![key] = Present(state)]

\* The last step was a call of the view model, not an event of a child.
NoEvent == [runId |-> 0, kind |-> "none"]

\* stopEntryInternal for each of the given keys: the run ids that get a stop
\* request. The record stays in runningByEntry and the child is only sent
\* SIGTERM: nothing waits for it to exit, it runs until its 'close' event.
stopEntryInternal(keys) ==
    {runningByEntry[k] : k \in {k2 \in keys : runningByEntry[k2] # 0}}

\* stopSiblingRunsForConfig: every other running key of the same config.
siblingKeys(entryKey) ==
    {k \in EntryKeys : k # entryKey /\ startsWithConfigPrefix(k, entryKey)}

\* runEntry(entry, profile), from the resumption after resolveCliLaunch on:
\* stop the entry's own run and the sibling runs, spawn, register, set state.
RunEntry(key, profile) ==
    /\ runCounter < MaxViewRuns
    /\ LET stopped == stopEntryInternal({key} \cup siblingKeys(key))
           runId == runCounter + 1
       IN /\ terminatedRunIds' = terminatedRunIds \cup stopped
          /\ children' = Append(children,
                                [key |-> key, profile |-> profile, closed |-> FALSE])
          /\ runCounter' = runId
          /\ runningByEntry' = [runningByEntry EXCEPT ![key] = runId]
          /\ stateByEntry' = setState(stateByEntry, key,
                 ConfigState("running", profile, lastExitCodeOf(stateByEntry, key),
                             Absent, Present(profile = "watch")))
    /\ lastEvent' = NoEvent

\* stopEntry(entry)
StopEntry(key) ==
    /\ terminatedRunIds' = terminatedRunIds \cup stopEntryInternal({key})
    /\ lastEvent' = NoEvent
    /\ UNCHANGED <<stateByEntry, runningByEntry, runCounter, children>>

\* stopAllRuns()
StopAllRuns ==
    /\ terminatedRunIds' = terminatedRunIds \cup stopEntryInternal(EntryKeys)
    /\ lastEvent' = NoEvent
    /\ UNCHANGED <<stateByEntry, runningByEntry, runCounter, children>>

\* An event of the child of run `runId` is delivered to its handler.
Delivered(runId, kind) == lastEvent' = [runId |-> runId, kind |-> kind]

\* The guard every handler starts with:
\* this.runningByEntry.get(entry.key)?.runId !== runId
isRegistered(runId) == runningByEntry[children[runId].key] = runId

\* childProcess.stdout.on('data'), the chunk completing the given line.
StdoutData(runId, line) ==
    /\ runId \in 1..runCounter
    /\ ~children[runId].closed
    /\ Delivered(runId, "stdout")
    /\ LET key == children[runId].key
           profile == children[runId].profile
           runExitCode == parseWatchRunExitCodeFromLine(line)
       IN stateByEntry' =
            IF ~isRegistered(runId) THEN stateByEntry
            ELSE IF line = "none" \/ profile # "watch" THEN stateByEntry
            ELSE IF isWatchRunStartLine(line)
                 THEN setState(stateByEntry, key,
                        ConfigState("running", profile, lastExitCodeOf(stateByEntry, key),
                                    errorMessageOf(stateByEntry, key), Present(TRUE)))
            ELSE IF runExitCode = Absent THEN stateByEntry
            ELSE setState(stateByEntry, key,
                        ConfigState("running", profile, runExitCode,
                                    errorMessageOf(stateByEntry, key), Present(FALSE)))
    /\ UNCHANGED <<runningByEntry, terminatedRunIds, runCounter, children>>

\* childProcess.stderr.on('data'): the lines go to the output channel only.
StderrData(runId) ==
    /\ runId \in 1..runCounter
    /\ ~children[runId].closed
    /\ Delivered(runId, "stderr")
    /\ UNCHANGED <<stateByEntry, runningByEntry, terminatedRunIds, runCounter, children>>

\* childProcess.on('error'): the process could not be spawned or could not be
\* signalled; its 'close' event is still to come.
ViewChildError(runId) ==
    /\ runId \in 1..runCounter
    /\ ~children[runId].closed
    /\ Delivered(runId, "error")
    /\ LET key == children[runId].key
       IN IF ~isRegistered(runId)
          THEN UNCHANGED <<stateByEntry, runningByEntry>>
          ELSE /\ runningByEntry' = [runningByEntry EXCEPT ![key] = 0]
               /\ stateByEntry' = setState(stateByEntry, key,
                      ConfigState("error", children[runId].profile,
                                  lastExitCodeOf(stateByEntry, key),
                                  Present("error.message"), Absent))
    /\ UNCHANGED <<terminatedRunIds, runCounter, children>>

\* The 'close' handler without the run id guard it starts with.
ViewChildClose_Unguarded(runId, code) ==
    /\ runId \in 1..runCounter
    /\ ~children[runId].closed
    /\ Delivered(runId, "close")
    /\ children' = [children EXCEPT ![runId].closed = TRUE]
    /\ LET key == children[runId].key
           profile == children[runId].profile
           previous == lastExitCodeOf(stateByEntry, key)
       IN /\ runningByEntry' = [runningByEntry EXCEPT ![key] = 0]
          /\ IF runId \in terminatedRunIds
             THEN /\ terminatedRunIds' = terminatedRunIds \ {runId}
                  /\ stateByEntry' = setState(stateByEntry, key,
                         ConfigState("stopped", profile, previous, Absent, Absent))
             ELSE /\ UNCHANGED terminatedRunIds
                  /\ stateByEntry' = setState(stateByEntry, key,
                         IF code \in {0, 1}
                         THEN ConfigState(IF code = 0 THEN "passed" ELSE "failed",
                                          profile, Present(code), Absent, Absent)
                         ELSE ConfigState("error", profile, previous,
                                          Present("Process exited unexpectedly"),
                                          Absent))
    /\ UNCHANGED runCounter

\* childProcess.on('close'): the process has ended and its streams are closed.
ViewChildClose(runId, code) ==
    /\ runId \in 1..runCounter
    /\ ~children[runId].closed
    /\ Delivered(runId, "close")
    /\ children' = [children EXCEPT ![runId].closed = TRUE]
    /\ LET key == children[runId].key
           profile == children[runId].profile
           previous == lastExitCodeOf(stateByEntry, key)
       IN IF ~isRegistered(runId)
          THEN UNCHANGED <<stateByEntry, runningByEntry, terminatedRunIds>>
          ELSE /\ runningByEntry' = [runningByEntry EXCEPT ![key] = 0]
               /\ IF runId \in terminatedRunIds
                  THEN /\ terminatedRunIds' = terminatedRunIds \ {runId}
                       /\ stateByEntry' = setState(stateByEntry, key,
                              ConfigState("stopped", profile, previous, Absent, Absent))
                  ELSE /\ UNCHANGED terminatedRunIds
                       /\ stateByEntry' = setState(stateByEntry, key,
                              IF code \in {0, 1}
                              THEN ConfigState(IF code = 0 THEN "passed" ELSE "failed",
                                               profile, Present(code), Absent, Absent)
                              ELSE ConfigState("error", profile, previous,
                                               Present("Process exited unexpectedly"),
                                               Absent))
    /\ UNCHANGED runCounter

\* new CiRunnerViewModel(): nothing has run yet.
InitView ==
    /\ stateByEntry = [k \in EntryKeys |-> Absent]
    /\ runningByEntry = [k \in EntryKeys |-> 0]
    /\ terminatedRunIds = {}
    /\ runCounter = 0
    /\ children = <<>>
    /\ lastEvent = NoEvent

\* No view model is under observation.
NoView ==
    /\ stateByEntry = <<>>
    /\ runningByEntry = <<>>
    /\ terminatedRunIds = {}
    /\ runCounter = -1
    /\ children = <<>>
    /\ lastEvent = NoEvent

\* What an action of one component leaves alone: the other components.
restOfRun == <<tvars, wvars, evars, gvars, cvars, mvars, jvars, xvars>>
restOfTwin == <<wvars, evars, gvars, cvars, mvars, jvars, xvars>>
restOfWatch == <<rvars, tvars, evars, gvars, cvars, mvars, jvars, xvars>>
restOfExec == <<rvars, tvars, wvars, gvars, cvars, mvars, jvars, xvars>>
restOfRegistry == <<rvars, tvars, wvars, evars, cvars, mvars, jvars, xvars>>
restOfCli == <<rvars, tvars, wvars, evars, gvars, mvars, jvars, xvars>>

restOfMatcher == <<rvars, tvars, wvars, evars, gvars, cvars, jvars, xvars>>

restOfJson == <<rvars, tvars, wvars, evars, gvars, cvars, mvars, xvars>>

restOfView == <<rvars, tvars, wvars, evars, gvars, cvars, mvars, jvars>>

vars == <<rvars, tvars, wvars, evars, gvars, cvars, mvars, jvars, xvars>>

Init ==
    /\ InitRun
    /\ parserResolver = "absent"
    /\ NoTwin
    /\ NoWatch
    /\ NoExec
    /\ NoRegistry
    /\ NoCli
    /\ NoMatcher
    /\ NoJson
    /\ NoView

Next ==
    \/ Run /\ UNCHANGED restOfRun
    \/ \E execution \in Outcomes : ExecutorResolves(execution) /\ UNCHANGED restOfRun
    \/ SleepResolves /\ UNCHANGED restOfRun
    \/ StepCompleteResolves /\ UNCHANGED restOfRun

Spec == Init /\ [][Next]_vars

\* run() is called, and the executor, the sleep function and the reporters
\* resolve every promise they return.
RunFairness ==
    /\ WF_vars(Run /\ UNCHANGED restOfRun)
    /\ WF_vars(\E execution \in Outcomes : ExecutorResolves(execution) /\ UNCHANGED restOfRun)
    /\ WF_vars(SleepResolves /\ UNCHANGED restOfRun)
    /\ WF_vars(StepCompleteResolves /\ UNCHANGED restOfRun)

RunFairSpec == Spec /\ RunFairness

\* Two runs of the same step definitions with a deterministic executor; the
\* second run keeps the parser resolver of the first or has none.  The steps
\* give maxAttempts as normalizeRetryPolicy leaves it, 1 or more.
TwinInit ==
    /\ InitRun
    /\ \A i \in 1..Len(steps) : steps[i].maxAttempts = normalizeRetryPolicy(steps[i]).maxAttempts
    /\ parserResolver \in ParserResolvers
    /\ InitTwin
    /\ NoWatch
    /\ NoExec
    /\ NoRegistry
    /\ NoCli
    /\ NoMatcher
    /\ NoJson
    /\ NoView

TwinNext ==
    \/ Run /\ UNCHANGED tvars /\ UNCHANGED restOfTwin
    \/ \E execution \in Outcomes :
          ExecutorResolves(execution) /\ executorReturns(execution) /\ UNCHANGED restOfTwin
    \/ SleepResolves /\ UNCHANGED tvars /\ UNCHANGED restOfTwin
    \/ StepCompleteResolves /\ UNCHANGED tvars /\ UNCHANGED restOfTwin
    \/ \E resolver \in {parserResolver, "absent"} :
          RunAgain(resolver) /\ UNCHANGED restOfTwin

TwinSpec == TwinInit /\ [][TwinNext]_vars

WatchInit == InitWatch /\ NoRun /\ NoTwin /\ NoExec /\ NoRegistry /\ NoCli /\ NoMatcher /\ NoJson /\ NoView

WatchNext ==
    \/ \E r \in inFlight, code \in {0, 1} : RunBuildsResult(r, code) /\ UNCHANGED restOfWatch
    \/ \E r \in inFlight, supported \in BOOLEAN : InitialRunReturns(r, supported) /\ UNCHANGED restOfWatch
    \/ \E path \in WatchPaths : Change(path) /\ UNCHANGED restOfWatch
    \/ \E t \in timers : TimerFires(t) /\ UNCHANGED restOfWatch
    \/ \E r \in inFlight : LockedRunReturns(r) /\ UNCHANGED restOfWatch
    \/ \E cause \in StopCauses : Stop(cause) /\ UNCHANGED restOfWatch

WatchSpec == WatchInit /\ [][WatchNext]_vars

\* The debounce timer is a timer of the event loop and fires unless cleared;
\* a pipeline run in flight builds its result; an awaited execute() returns.
WatchFairness ==
    /\ WF_vars(\E t \in timers : TimerFires(t) /\ UNCHANGED restOfWatch)
    /\ WF_vars(\E r \in inFlight, code \in {0, 1} : RunBuildsResult(r, code) /\ UNCHANGED restOfWatch)
    /\ WF_vars(\E r \in inFlight : LockedRunReturns(r) /\ UNCHANGED restOfWatch)

WatchFairSpec == WatchSpec /\ WatchFairness

ExecInit == InitExec /\ NoRun /\ NoTwin /\ NoWatch /\ NoRegistry /\ NoCli /\ NoMatcher /\ NoJson /\ NoView

ExecNext ==
    \/ \E stream \in Streams, chunk \in Chunks :
            StreamData(stream, chunk) /\ UNCHANGED restOfExec
    \/ \E spawnError \in SpawnErrors : ChildError(spawnError) /\ UNCHANGED restOfExec
    \/ \E status \in ExitStatuses : ChildExits(status) /\ UNCHANGED restOfExec
    \/ TimeoutFires /\ UNCHANGED restOfExec
    \/ \E status \in CloseStatuses : CloseEvent(status) /\ UNCHANGED restOfExec

ExecSpec == ExecInit /\ [][ExecNext]_vars

\* A set timer fires unless cleared; a failed spawn emits error on the next
\* tick; a command that ends by itself, or a process SIGTERM reached, exits;
\* the streams of an ended child end and close is emitted.
ExecFairness ==
    /\ WF_vars(TimeoutFires /\ UNCHANGED restOfExec)
    /\ WF_vars(\E spawnError \in SpawnErrors : ChildError(spawnError) /\ UNCHANGED restOfExec)
    /\ WF_vars(\E status \in ExitStatuses : ChildExits(status) /\ UNCHANGED restOfExec)
    /\ WF_vars(\E status \in CloseStatuses : CloseEvent(status) /\ UNCHANGED restOfExec)

ExecFairSpec == ExecSpec /\ ExecFairness

RegistryInit == InitRegistry /\ NoRun /\ NoTwin /\ NoWatch /\ NoExec /\ NoCli /\ NoMatcher /\ NoJson /\ NoView

RegistryNext ==
    \/ \E parser \in ParserKinds : Register(parser) /\ UNCHANGED restOfRegistry
    \/ ParseCalled /\ UNCHANGED restOfRegistry
    \/ LoopIteration /\ UNCHANGED restOfRegistry
    \/ LoopExhausted /\ UNCHANGED restOfRegistry

RegistrySpec == RegistryInit /\ [][RegistryNext]_vars

CliInit == InitCli /\ NoRun /\ NoTwin /\ NoWatch /\ NoExec /\ NoRegistry /\ NoMatcher /\ NoJson /\ NoView

CliNext ==
    \/ ParseArguments /\ UNCHANGED restOfCli
    \/ RunCliPipeline /\ UNCHANGED restOfCli
    \/ \E value \in {Absent, Present(TRUE), Present(FALSE)} :
          CreatePipelineRunner(value) /\ UNCHANGED restOfCli

CliSpec == CliInit /\ [][CliNext]_vars

MatcherInit == InitMatcher /\ NoRun /\ NoTwin /\ NoWatch /\ NoExec /\ NoRegistry /\ NoCli /\ NoJson /\ NoView

MatcherNext ==
    \/ CreateWatchIgnoreMatcher /\ UNCHANGED restOfMatcher
    \/ \E name \in WatchFileNames : MatcherCalled(name) /\ UNCHANGED restOfMatcher

MatcherSpec == MatcherInit /\ [][MatcherNext]_vars

JsonInit == InitJson /\ NoRun /\ NoTwin /\ NoWatch /\ NoExec /\ NoRegistry /\ NoCli /\ NoMatcher /\ NoView

JsonNext ==
    \E chunk \in StreamChunks : Feed(chunk) /\ UNCHANGED restOfJson

JsonSpec == JsonInit /\ [][JsonNext]_vars

ViewInit == InitView /\ NoRun /\ NoTwin /\ NoWatch /\ NoExec /\ NoRegistry /\ NoCli /\ NoMatcher /\ NoJson

ViewNext ==
    \/ \E key \in EntryKeys, profile \in RunProfiles :
           RunEntry(key, profile) /\ UNCHANGED restOfView
    \/ \E key \in EntryKeys : StopEntry(key) /\ UNCHANGED restOfView
    \/ StopAllRuns /\ UNCHANGED restOfView
    \/ \E runId \in 1..MaxViewRuns, line \in StdoutLines :
           StdoutData(runId, line) /\ UNCHANGED restOfView
    \/ \E runId \in 1..MaxViewRuns : StderrData(runId) /\ UNCHANGED restOfView
    \/ \E runId \in 1..MaxViewRuns : ViewChildError(runId) /\ UNCHANGED restOfView
    \/ \E runId \in 1..MaxViewRuns, code \in CloseCodes :
           ViewChildClose(runId, code) /\ UNCHANGED restOfView

ViewSpec == ViewInit /\ [][ViewNext]_vars

\* ------------------------------------------------- reading the run's history
\* Positions of the events of one kind for step i.
EventsOf(kind, i) ==
    {k \in 1..Len(events) : events[k].kind = kind /\ events[k].index = i}

\* Executor calls made for step i among the first k events.
ExecCallsUpTo(i, k) == Cardinality({m \in EventsOf("exec", i) : m <= k})

ExecCalls(i) == ExecCallsUpTo(i, Len(events))

\* The executor is called again for step i after event k.
CalledAgainAfter(i, k) == \E m \in EventsOf("exec", i) : m > k

\* What a configured maxAttempts counts as.
EffectiveMaxAttempts(i) == IF steps[i].maxAttempts < 1 THEN 1 ELSE steps[i].maxAttempts

HardStatuses == {"failed", "timed_out"}

HardPositions(results) ==
    {i \in 1..Len(results) : results[i].status \in HardStatuses}

FirstOf(S) == CHOOSE i \in S : \A j \in S : i <= j

\* The outcome of the last attempt of step i.
LastOutcome(i) ==
    LET ks == EventsOf("resolved", i)
    IN  events[CHOOSE k \in ks : \A m \in ks : m <= k].outcome

\* ------------------------------------------------------------------ claims

\* C1: in every PipelineRunResult the exit code is 1 exactly when the summary
\* counts a failed or a timed-out step, and 0 otherwise.
C1_ExitCodeLaw ==
    result # <<>> =>
        LET r == result[1]
        IN  /\ r.exitCode \in {0, 1}
            /\ r.exitCode = 1 <=> (r.summary.failed > 0 \/ r.summary.timedOut > 0)
            /\ r.summary.failed = Cardinality({i \in 1..Len(r.steps) : r.steps[i].status = "failed"})
            /\ r.summary.timedOut = Cardinality({i \in 1..Len(r.steps) : r.steps[i].status = "timed_out"})

C1_Witness ==
    /\ result # <<>>
    /\ result[1].exitCode = 1
    /\ result[1].summary.failed = 0
    /\ result[1].summary.timedOut = 1
    /\ result[1].summary.passed = 1

\* C2: with continueOnError false the step results end at the first hard
\* failure (failed or timed_out), or cover every step when there is none; for
\* the steps after it there is no executor call, no notification, no result.
C2_FailFast ==
    ~continueOnError =>
        LET hard == HardPositions(stepResults)
        IN  /\ hard # {} =>
                /\ Len(stepResults) = FirstOf(hard)
                /\ \A k \in 1..Len(events) : events[k].index <= FirstOf(hard)
            /\ result # <<>> =>
                /\ result[1].steps = stepResults
                /\ Len(result[1].steps) = IF hard = {} THEN Len(steps) ELSE FirstOf(hard)
            /\ \A i \in 1..Len(stepResults) : stepResults[i].id = i

C2_Witness ==
    /\ ~continueOnError
    /\ result # <<>>
    /\ Len(steps) = 2
    /\ Len(result[1].steps) = 1
    /\ result[1].steps[1].status = "timed_out"
    /\ ExecCalls(2) = 0

\* C3: an optional step ends passed or skipped, never failed or timed_out; when
\* its last attempt timed out it is skipped with reason optional_step_failed.
C3_OptionalNeverHard ==
    \A i \in 1..Len(stepResults) :
        steps[stepResults[i].id].optional =>
            /\ stepResults[i].status \in {"passed", "skipped"}
            /\ LastOutcome(stepResults[i].id) = Timeout =>
                  /\ stepResults[i].status = "skipped"
                  /\ stepResults[i].reason = "optional_step_failed"

C3_Witness ==
    \E i \in 1..Len(stepResults) :
        /\ steps[i].optional
        /\ LastOutcome(i) = Timeout
        /\ stepResults[i].status = "skipped"
        /\ stepResults[i].attempts = 2

AlwaysFails(i) ==
    \A k \in EventsOf("resolved", i) : events[k].outcome = Failure

\* C5: a step with maxAttempts = N whose every attempt fails without timing
\* out is attempted exactly N times and ends failed/command_failed, or
\* skipped/optional_step_failed when it is optional.
C5_AlwaysFailing ==
    \A i \in 1..Len(stepResults) :
        AlwaysFails(stepResults[i].id) =>
            /\ ExecCalls(stepResults[i].id) = EffectiveMaxAttempts(stepResults[i].id)
            /\ stepResults[i].attempts = EffectiveMaxAttempts(stepResults[i].id)
            /\ IF steps[stepResults[i].id].optional
               THEN /\ stepResults[i].status = "skipped"
                    /\ stepResults[i].reason = "optional_step_failed"
               ELSE /\ stepResults[i].status = "failed"
                    /\ stepResults[i].reason = "command_failed"

C5_Witness ==
    /\ Len(stepResults) = 2
    /\ AlwaysFails(1) /\ AlwaysFails(2)
    /\ steps[1].maxAttempts = 2
    /\ stepResults[1].attempts = 2
    /\ stepResults[1].status = "failed"
    /\ stepResults[2].status = "skipped"

\* C6: after an attempt that timed out the step is attempted again exactly
\* when retryOnTimeout is true and fewer than maxAttempts attempts were made;
\* with retryOnTimeout false no later attempt of the step exists.
C6_RetryOnTimeout ==
    \A k \in 1..Len(events) :
        (events[k].kind = "resolved" /\ events[k].outcome = Timeout) =>
            LET i == events[k].index
                retried == k < Len(events) /\ events[k + 1].kind \in {"exec", "sleep"}
            IN  /\ retried <=> (/\ steps[i].retryOnTimeout
                                /\ ExecCallsUpTo(i, k) < EffectiveMaxAttempts(i))
                /\ ~steps[i].retryOnTimeout => ~CalledAgainAfter(i, k)
                /\ (retried /\ pc # "sleep") => CalledAgainAfter(i, k)

C6_Witness ==
    /\ Len(stepResults) = 2
    /\ steps[1].maxAttempts = 1
    /\ LastOutcome(1) = Timeout
    /\ ExecCalls(1) = 1
    /\ steps[2].retryOnTimeout /\ steps[2].maxAttempts = 2
    /\ \E k \in EventsOf("resolved", 2) :
          events[k].outcome = Timeout /\ CalledAgainAfter(2, k)
    /\ LastOutcome(2) = Timeout

\* C7: when an attempt of a step succeeds, as its k-th attempt, the step ends
\* passed without a reason, with attempts = k and retried = (k > 1), and the
\* executor is not called for the step again.
C7_FirstSuccess ==
    \A e \in 1..Len(events) :
        (events[e].kind = "resolved" /\ events[e].outcome = Success) =>
            LET i == events[e].index
                k == ExecCallsUpTo(i, e)
            IN  /\ Len(stepResults) >= i
                /\ stepResults[i].id = i
                /\ stepResults[i].status = "passed"
                /\ stepResults[i].reason = "none"
                /\ stepResults[i].attempts = k
                /\ stepResults[i].retried = (k > 1)
                /\ ~CalledAgainAfter(i, e)
                /\ \A m \in EventsOf("resolved", i) : m < e => events[m].outcome # Success

C7_Witness ==
    \E i \in 1..Len(stepResults) :
        /\ stepResults[i].status = "passed"
        /\ stepResults[i].attempts = 2
        /\ stepResults[i].retried
        /\ \E e \in EventsOf("resolved", i) : events[e].outcome = Failure

\* C8: in watch mode at most one pipeline run is in flight at any time, its
\* pipeline-complete phase included; outside the initial run a run in flight
\* holds the lock.
C8_MutualExclusion ==
    /\ Cardinality(inFlight) <= 1
    /\ (inFlight # {} /\ wpc # "initial" /\ wpc # "unused") => running

C8_Witness ==
    /\ running
    /\ queued >= 1
    /\ \E r \in inFlight : r.phase = "completing"
    /\ timers # {}

\* A run held by the lock has returned in this step.
LockedRunReturned(r) ==
    /\ wpc # "initial"
    /\ r.phase = "completing"
    /\ r \notin inFlight'

\* C9: a rerun requested while a run is active starts no run and sets
\* rerun-pending, however many such requests arrive; when the active run
\* finishes with the flag set, the flag is cleared and exactly one run starts.
C9_SingleQueuedRerun ==
    [][/\ (requests' = requests + 1 /\ running) =>
              /\ rerunPending'
              /\ inFlight' = inFlight
              /\ runsStarted' = runsStarted
       /\ (running => (rerunPending <=> queued >= 1))
       /\ \A r \in inFlight :
              LockedRunReturned(r) =>
                  IF rerunPending
                  THEN /\ ~rerunPending'
                       /\ running'
                       /\ runsStarted' = runsStarted + 1
                       /\ Cardinality(inFlight') = 1
                  ELSE /\ ~running'
                       /\ runsStarted' = runsStarted
                       /\ inFlight' = inFlight \ {r}]_vars

C9_Witness ==
    /\ requests = 3
    /\ runsStarted = 3
    /\ inFlight = {}
    /\ ~running
    /\ ~rerunPending

\* C10: at most one debounce timer is pending, the one set last; every burst
\* of non-ignored changes (from a change that finds no timer pending up to the
\* timer firing) gives exactly one rerun request, unless stop() cancels it.
C10_Debounce ==
    /\ Cardinality(timers) <= 1
    /\ timers \subseteq {debounceHandle}
    /\ requests + Cardinality(timers) + cancelled = bursts

C10_Witness ==
    /\ changes = 3
    /\ bursts = 1
    /\ requests = 1
    /\ timers = {}
    /\ cancelled = 0

\* C11: while the session watches and no stop signal arrives, every non-ignored
\* change observed is followed by a pipeline run that starts after the change,
\* given that the debounce timer fires and every run finishes.
C11_ChangeLeadsToRun ==
    \A n \in 1..MaxChanges : (changes >= n) ~> (seenAtStart >= n \/ finished)

\* Two changes are observed, the second while a run is active or after it, and
\* the newest run started after both.
C11_Witness ==
    /\ ~finished
    /\ changes = 2
    /\ seenAtStart = 2
    /\ requests = 2
    /\ runsStarted = 3

\* C12: once stop() has run the watcher is closed, no debounce timer is
\* pending, and runWatchLoop has returned the exit code of the run that
\* completed last before the stop; a run still in flight is not awaited and
\* what it returns later does not change the returned value.
C12_StopReturnsLastCompleted ==
    finished =>
        /\ ~watcherOpen
        /\ timers = {}
        /\ wpc = "returned"
        /\ returnValue = completedCodes[stoppedAfter]

\* stop() cancelled a pending timer while a run was in flight, and that run
\* returned afterwards with another exit code than the one returned.
C12_Witness ==
    /\ finished
    /\ cancelled = 1
    /\ Len(completedCodes) > stoppedAfter
    /\ completedCodes[Len(completedCodes)] # returnValue

\* C13: a change event for a path the matcher ignores leaves the scheduler as it
\* was: no timer is set or reset, no rerun is requested, no run starts.
C13_IgnoredChangeInert ==
    [][(lastPath' # lastPath /\ shouldIgnorePath(lastPath')) =>
          UNCHANGED <<debounceHandle, timers, running, rerunPending, inFlight,
                      runsStarted, requests, queued, changes, bursts, lastExitCode>>]_vars

\* An ignored path was reported last while a debounce timer is pending and a
\* run is in flight.
C13_Witness ==
    /\ shouldIgnorePath(lastPath)
    /\ debounceHandle \in timers
    /\ inFlight # {}
    /\ running

\* C14: for one call of the executor resolve() is called at most once, and once
\* the promise has its value no later event, a close event that comes again
\* included, changes it.
C14_ResolvedOnce ==
    /\ [](resolveCalls <= 1)
    /\ [][outcome # <<>> => outcome' = outcome]_vars

\* The close listener was called twice for a child with a timeout; the timer
\* was cleared before it fired and resolve() was called once.
C14_Witness ==
    /\ closeEvents = 2
    /\ resolveCalls = 1
    /\ timeoutMs > 0
    /\ ~timerFired

\* C15 as stated: if the process ends before the timer fires, no signal is
\* sent, the outcome has timedOut=false, and exit code 0 is reported successful.
C15_ExitBeforeTimer ==
    (child \in {"exited", "closed"} /\ spawnOk /\ ~timerFiredAtExit) =>
        /\ ~signalled
        /\ outcome # <<>> =>
              /\ ~outcome[1].timedOut
              /\ exitStatus.exitCode = ExitCode(0) => outcome[1].successful

\* C15 amended: if the close event is delivered before the timer fires, the
\* timer is cleared, child.kill is never called, the outcome has timedOut=false,
\* and a spawned command that closes with code 0 is reported successful.
C15_CloseBeforeTimer ==
    (closed /\ ~timerFiredAtClose) =>
        /\ killCalls = 0
        /\ ~timerPending
        /\ ~outcome[1].timedOut
        /\ (spawnOk /\ exitStatus.exitCode = ExitCode(0)) => outcome[1].successful

\* A command with a timeout closed with code 0 before the timer fired.
C15_Witness ==
    /\ closed
    /\ timeoutMs > 0
    /\ ~timerFiredAtClose
    /\ outcome[1].successful

\* C16: once the timer callback has run, child.kill('SIGTERM') has been called
\* and the outcome, when there is one, has timedOut=true and successful=false
\* whatever exit code the close event carries.
C16_TimeoutMarksOutcome ==
    timerFired =>
        /\ killCalls >= 1
        /\ outcome # <<>> => (outcome[1].timedOut /\ ~outcome[1].successful)

\* The timer fired and the process still reported exit code 0.
C16_Witness ==
    /\ timerFired
    /\ signalled
    /\ outcome # <<>>
    /\ outcome[1].exitCode = ExitCode(0)

\* C17: a command failure is a resolved outcome with successful=false: so for a
\* non-zero exit, and so for a failed spawn, whose outcome also records the
\* error and has exitCode null.
C17_FailureIsOutcome ==
    outcome # <<>> =>
        /\ outcome[1].exitCode # ExitCode(0) => ~outcome[1].successful
        /\ ~spawnOk =>
              /\ ~outcome[1].successful
              /\ outcome[1].error # NoError
              /\ outcome[1].exitCode = Null

KindPositions(kind) == {k \in 1..Len(events) : events[k].kind = kind}

\* Positions of what step i does between its notifications.
ActivityOf(i) == EventsOf("exec", i) \cup EventsOf("resolved", i) \cup EventsOf("sleep", i)

\* C19: notifications come in execution order: pipeline-start once and first;
\* for a step, step-start once before its first executor call, step-complete
\* once after its last attempt and before the next step's step-start;
\* pipeline-complete once, last, after the last step-complete, also when
\* fail-fast stopped the loop early.
C19_LifecycleOrder ==
    /\ events # <<>> => KindPositions("pipelineStart") = {1}
    /\ \A i \in 1..Len(steps) :
          /\ Cardinality(EventsOf("stepStart", i)) <= 1
          /\ Cardinality(EventsOf("stepComplete", i)) <= 1
          /\ \A k \in ActivityOf(i) \cup EventsOf("stepComplete", i) :
                \E m \in EventsOf("stepStart", i) : m < k
          /\ \A k \in EventsOf("stepComplete", i) :
                /\ \A m \in ActivityOf(i) : m < k
                /\ \A m \in EventsOf("stepStart", i + 1) : k < m
          /\ \A m \in EventsOf("stepStart", i + 1) :
                \E k \in EventsOf("stepComplete", i) : k < m
    /\ KindPositions("pipelineComplete") \subseteq {Len(events)}
    /\ pc = "done" =>
          /\ KindPositions("pipelineComplete") = {Len(events)}
          /\ Cardinality(KindPositions("stepStart")) = Len(stepResults)
          /\ Cardinality(KindPositions("stepComplete")) = Len(stepResults)

\* A run that fail-fast ended after the first of two steps, which was tried
\* twice, and notified pipeline-complete.
C19_Witness ==
    /\ pc = "done"
    /\ Len(steps) = 2
    /\ Len(stepResults) = 1
    /\ ExecCalls(1) = 2
    /\ events[Len(events)].kind = "pipelineComplete"

\* C20: the executor is never called while an earlier call is unresolved, and
\* the calls come in step order: every attempt of step i before any of i+1.
C20_Sequential ==
    /\ \A k \in KindPositions("exec") :
          Cardinality({m \in KindPositions("exec") : m < k})
              = Cardinality({m \in KindPositions("resolved") : m < k})
    /\ \A k \in KindPositions("resolved") :
          /\ k > 1
          /\ \E m \in KindPositions("exec") :
                /\ m < k
                /\ events[m].index = events[k].index
                /\ \A j \in (m + 1)..(k - 1) : events[j].kind \notin {"exec", "resolved"}
    /\ \A k, m \in KindPositions("exec") :
          k < m => events[k].index <= events[m].index

\* Two attempts of the first step, then one of the second, all resolved.
C20_Witness ==
    /\ pc = "done"
    /\ ExecCalls(1) = 2
    /\ ExecCalls(2) = 1

\* C21: with continueOnError true the result holds one StepResult per declared
\* step, in declared order, whatever the outcomes of earlier steps.
C21_ContinueOnError ==
    (pc = "done" /\ continueOnError) =>
        /\ Len(result[1].steps) = Len(steps)
        /\ \A i \in 1..Len(steps) : result[1].steps[i].id = steps[i].id

\* A run with continueOnError whose first step timed out and whose second
\* step was executed all the same.
C21_Witness ==
    /\ pc = "done"
    /\ continueOnError
    /\ Len(steps) = 2
    /\ result[1].steps[1].status = "timed_out"
    /\ result[1].steps[2].status = "passed"

\* Positions of the parsers that match the step, and of those among them
\* that yield a metric.
Matching == {k \in 1..Len(parsers) : parsers[k].matches}
Yielding == {k \in Matching : parsers[k].yields}

\* C22: parse returns the metric of the first parser, in registration order,
\* that matches the step and yields one, and null only when no matching
\* parser yields one; it asks the matching parsers in order up to that one,
\* falling through those that yield nothing, and never a non-matching parser.
C22_FirstMatchingMetric ==
    /\ \A j \in 1..Len(parseCalls) : parseCalls[j] \in Matching
    /\ \A j \in 1..Len(parseCalls), l \in 1..Len(parseCalls) :
          j < l => parseCalls[j] < parseCalls[l]
    /\ regPc = "returned" =>
          /\ parsed = IF Yielding = {} THEN NoMetrics ELSE MetricsOf(FirstOf(Yielding))
          /\ {parseCalls[j] : j \in 1..Len(parseCalls)}
                = {k \in Matching : \A y \in Yielding : k <= y}

\* The first parser does not match, the second matches and yields nothing,
\* a later one yields the metric returned.
C22_Witness ==
    /\ regPc = "returned"
    /\ parsed = MetricsOf(3)
    /\ parseCalls = <<2, 3>>
    /\ matchCalls = <<1, 2, 3>>

\* What of a StepResult the terminal status is made of.
Terminal(stepResult) ==
    [status |-> stepResult.status,
     reason |-> stepResult.reason,
     attempts |-> stepResult.attempts]

\* The second run has ended: both results are there to compare.
BothDone == runNo = 2 /\ pc = "done"

\* C23: two runs of the same steps with the same executor outcomes that
\* differ only in the parser resolver (absent, returning null, returning a
\* metric) give every step the same status, reason and attempts, and the
\* same exit code.
C23_MetricsNeverDecide ==
    BothDone =>
        /\ Len(result[1].steps) = Len(firstRun[1].steps)
        /\ \A i \in 1..Len(result[1].steps) :
              Terminal(result[1].steps[i]) = Terminal(firstRun[1].steps[i])
        /\ result[1].exitCode = firstRun[1].exitCode

\* The first run attached a metric, the second one had no resolver, and both
\* ended with a passed and a timed-out step.
C23_Witness ==
    /\ BothDone
    /\ Len(result[1].steps) = 2
    /\ firstRun[1].steps[1].metrics # NoMetrics
    /\ result[1].steps[1].metrics = NoMetrics
    /\ result[1].steps[1].status = "passed"
    /\ result[1].steps[2].status = "timed_out"

\* C25: run twice with the same definitions and a deterministic executor, the
\* runner gives the same number of step results, to every step the same
\* status, reason and attempts, and the same exit code and summary.
C25_Idempotent ==
    (BothDone /\ parserResolver = firstResolver) =>
        /\ result[1].steps = firstRun[1].steps
        /\ result[1].summary = firstRun[1].summary
        /\ result[1].exitCode = firstRun[1].exitCode

\* Both runs retried the first step once, skipped it, and passed the second.
C25_Witness ==
    /\ BothDone
    /\ parserResolver = firstResolver
    /\ parserResolver = "metric"
    /\ Len(result[1].steps) = 2
    /\ result[1].steps[1].status = "skipped"
    /\ result[1].steps[1].attempts = 2
    /\ result[1].steps[2].status = "passed"

\* C24: the runner's continueOnError is true when nothing configures it, and
\* false whenever fail-fast is requested, whatever the configuration says.
C24_ContinueOnErrorDefault ==
    /\ cpc = "running" =>
          /\ options.failFast => runnerContinueOnError = Present(FALSE)
          /\ (~options.failFast /\ config.continueOnError = Absent) =>
                runnerContinueOnError = Present(TRUE)
    /\ (cpc = "created" /\ apiContinueOnError = Absent) =>
          runnerContinueOnError = Present(TRUE)

\* --fail-fast was given while the configuration sets continueOnError true.
C24_Witness ==
    /\ cpc = "running"
    /\ options.failFast
    /\ config.continueOnError = Present(TRUE)
    /\ runnerContinueOnError = Present(FALSE)

\* C30: when --format is given the effective output format is the flag's
\* value, even if the configuration sets another output.format; the
\* configured value applies only when the flag is not given.
C30_FormatFlagWins ==
    cpc = "running" =>
        effectiveFormat = IF options.formatProvided
                          THEN options.format
                          ELSE Coalesce(config.format, "pretty")

\* C26: when recursive watching cannot be established the loop does not wait:
\* it has returned the exit code of the initial run, the only run made, with
\* supported=false, no watcher open and stop never registered.
C26_UnsupportedRunsOnce ==
    watcherSupported = "no" =>
        /\ wpc = "returned"
        /\ returnValue = completedCodes[1]
        /\ runsStarted = 1
        /\ Len(completedCodes) = 1
        /\ inFlight = {}
        /\ ~handlers
        /\ ~finished
        /\ ~watcherOpen
        /\ timers = {}

\* The initial run failed and the loop returned its exit code at once.
C26_Witness ==
    /\ watcherSupported = "no"
    /\ wpc = "returned"
    /\ returnValue = 1

\* C27: a watcher error after watching began ends the wait: the watcher is
\* closed, the pending timer cancelled, stop unregistered, and the loop returns
\* the exit code of the run that completed last, a 0 included.
C27_WatcherErrorStops ==
    stopCause = "watcherError" =>
        /\ wpc = "returned"
        /\ finished
        /\ ~watcherOpen
        /\ ~handlers
        /\ timers = {}
        /\ stoppedAfter >= 1
        /\ returnValue = completedCodes[stoppedAfter]

\* A watcher error cancelled a pending timer after a rerun had failed and a
\* later one passed: the loop returned 0.
C27_Witness ==
    /\ stopCause = "watcherError"
    /\ cancelled = 1
    /\ returnValue = 0
    /\ stoppedAfter >= 2
    /\ 1 \in {completedCodes[k] : k \in 1..stoppedAfter}

\* The reason each terminal status carries; "none" stands for an absent reason.
ReasonOfStatus ==
    [passed |-> "none", failed |-> "command_failed",
     timed_out |-> "command_timeout", skipped |-> "optional_step_failed"]

\* Every step result built so far, pushed or returned in the run result.
AllStepResults ==
    {stepResults[i] : i \in 1..Len(stepResults)}
        \cup UNION {{result[k].steps[i] : i \in 1..Len(result[k].steps)} : k \in 1..Len(result)}

\* C28: in every step result the status is passed, failed, timed_out or
\* skipped and the reason is the one that status carries: none for passed,
\* command_failed for failed, command_timeout for timed_out and
\* optional_step_failed for skipped.
C28_StatusReasonConsistent ==
    \A r \in AllStepResults :
        /\ r.status \in DOMAIN ReasonOfStatus
        /\ r.reason = ReasonOfStatus[r.status]
        /\ (r.reason = "none") <=> (r.status = "passed")

\* An optional step timed out and was skipped with optional_step_failed,
\* next to a passed step without a reason.
C28_Witness ==
    /\ pc = "done"
    /\ \E r \in AllStepResults :
           r.status = "skipped" /\ r.output.timedOut /\ r.reason = "optional_step_failed"
    /\ \E r \in AllStepResults : r.status = "passed" /\ r.reason = "none"

\* The number of results with the given status, counted from the head.
RECURSIVE Tally(_, _)
Tally(results, status) ==
    IF results = <<>> THEN 0
    ELSE (IF Head(results).status = status THEN 1 ELSE 0) + Tally(Tail(results), status)

\* C29: in every run result summary.total is the length of the step result
\* list and the sum of passed, failed, skipped and timedOut, each of which is
\* the number of step results with that status.
C29_SummaryCounts ==
    \A k \in 1..Len(result) :
        LET r == result[k]
        IN  /\ r.summary.total = Len(r.steps)
            /\ r.summary.total = r.summary.passed + r.summary.failed
                                     + r.summary.skipped + r.summary.timedOut
            /\ r.summary.passed = Tally(r.steps, "passed")
            /\ r.summary.failed = Tally(r.steps, "failed")
            /\ r.summary.skipped = Tally(r.steps, "skipped")
            /\ r.summary.timedOut = Tally(r.steps, "timed_out")

\* A run of two steps that skipped the optional one and saw the other time out.
C29_Witness ==
    /\ pc = "done"
    /\ Len(steps) = 2
    /\ result[1].summary.total = 2
    /\ result[1].summary.skipped = 1
    /\ result[1].summary.timedOut = 1

\* C34: once stop() has run no execute() call is made: the number of pipeline
\* runs started stays what it was.
C34_NoRunAfterStop ==
    [][finished => runsStarted' = runsStarted]_vars

\* C38: every run after the initial one takes a debounce-timer firing of its
\* own, made after the run before it started: the runs started, with the
\* firings turned away since the newest of them started, are at most 1 plus the
\* firings; a queued rerun has such a firing behind it; firings need
\* non-ignored changes, and with none of them only the initial run starts.
C38_NoSpuriousRerun ==
    /\ runsStarted + queued <= 1 + requests
    /\ rerunPending => (running /\ queued >= 1)
    /\ requests <= changes
    /\ changes = 0 => runsStarted = 1

\* Three firings gave two reruns: the two that came while the first rerun was
\* in flight gave one.
C38_Witness ==
    /\ changes = 3
    /\ requests = 3
    /\ runsStarted = 3
    /\ queued = 0

\* C36: normalizeRetryPolicy gives every step a maxAttempts of at least 1, and
\* then executeStep never reaches the defensive fallback after its loop: every
\* step result comes from the success branch or from buildFailedResult.
C36_FallbackUnreached ==
    /\ \A i \in 1..Len(steps) : normalizeRetryPolicy(steps[i]).maxAttempts >= 1
    /\ \A k \in 1..Len(events) : events[k].kind # "fallback"

\* An optional step used up its two attempts and was skipped, which the
\* fallback would have reported failed; a step declared with maxAttempts 0 ran
\* once.
C36_Witness ==
    /\ pc = "done"
    /\ \E i \in 1..Len(stepResults) :
           /\ steps[i].optional
           /\ steps[i].maxAttempts = 2
           /\ stepResults[i].attempts = 2
           /\ stepResults[i].status = "skipped"
    /\ \E i \in 1..Len(stepResults) :
           /\ steps[i].maxAttempts = 0
           /\ stepResults[i].attempts = 1

\* The outcome of the first attempt of step i.
FirstOutcome(i) == events[FirstOf(EventsOf("resolved", i))].outcome

\* C35: the status of a step result follows from the step's optional flag and
\* the outcome of its last attempt alone: passed exactly when that attempt
\* succeeded; for a non-optional step timed_out exactly when it timed out and
\* failed exactly when it failed without timing out; for an optional step
\* skipped exactly when it did not succeed.
C35_LastAttemptDecides ==
    \A i \in 1..Len(stepResults) :
        LET r == stepResults[i]
            last == LastOutcome(i)
        IN  /\ EventsOf("resolved", i) # {}
            /\ r.output = last
            /\ (r.status = "passed") <=> last.successful
            /\ ~steps[i].optional =>
                  /\ (r.status = "timed_out") <=> last.timedOut
                  /\ (r.status = "failed") <=> (~last.successful /\ ~last.timedOut)
            /\ steps[i].optional =>
                  (r.status = "skipped") <=> ~last.successful

\* A non-optional step failed without timing out at its first attempt and
\* timed out at its second: it ended timed_out.
C35_Witness ==
    \E i \in 1..Len(stepResults) :
        /\ ~steps[i].optional
        /\ stepResults[i].attempts = 2
        /\ FirstOutcome(i) = Failure
        /\ LastOutcome(i) = Timeout
        /\ stepResults[i].status = "timed_out"

\* C37: sleep is called only between two attempts of a step whose delay is
\* positive, and with that delay: right after a failed attempt and, once it
\* resolves, right before the next executor call; a step that finished after
\* k attempts had k - 1 sleeps when its delayMs is positive and none when it
\* is 0.
C37_SleepBetweenAttempts ==
    /\ \A k \in KindPositions("sleep") :
          LET i == events[k].index
          IN  /\ events[k].outcome = [ms |-> steps[i].delayMs]
              /\ steps[i].delayMs > 0
              /\ k > 1
              /\ events[k - 1].kind = "resolved"
              /\ events[k - 1].index = i
              /\ ~events[k - 1].outcome.successful
              /\ k < Len(events) => (events[k + 1].kind = "exec" /\ events[k + 1].index = i)
              /\ k = Len(events) => pc = "sleep"
    /\ \A i \in 1..Len(stepResults) :
          Cardinality(EventsOf("sleep", i)) =
              IF steps[i].delayMs > 0 THEN stepResults[i].attempts - 1 ELSE 0

\* A step finished after two attempts with one sleep of its delay between them.
C37_Witness ==
    /\ pc = "done"
    /\ \E i \in 1..Len(stepResults) :
           /\ stepResults[i].attempts = 2
           /\ steps[i].delayMs = 250
           /\ Cardinality(EventsOf("sleep", i)) = 1

\* The sum over the declared steps of what their maxAttempts count as.
RECURSIVE SumMaxAttempts(_)
SumMaxAttempts(n) ==
    IF n = 0 THEN 0 ELSE EffectiveMaxAttempts(n) + SumMaxAttempts(n - 1)

PlainPath(s) == \A i \in 1..Len(s) : s[i] \in {"a", "b", "/"}

\* The file lies below the directory the pattern names, whole segments taken.
LiesBelow(file, pattern) ==
    startsWith(file, IF pattern[Len(pattern)] = "/" THEN pattern ELSE Append(pattern, "/"))

\* C31: for a pattern of names and separators, without wildcard, the predicate
\* ignores a file name exactly when, the pattern holding a '/', the name is the
\* pattern or lies below it, and when, the pattern holding none, one segment
\* of the name is the pattern.
C31_PrefixOrSegment ==
    (/\ mpc = "ready"
     /\ filePath # <<>>
     /\ PlainPath(filePath)
     /\ Len(excludePatterns) = 1
     /\ PlainPath(excludePatterns[1])) =>
        LET pattern == excludePatterns[1]
            segments == splitSegments(filePath, <<>>)
        IN  IF includesSlash(pattern)
            THEN ignored <=> (filePath = pattern \/ LiesBelow(filePath, pattern))
            ELSE ignored <=> \E i \in 1..Len(segments) : segments[i] = pattern

\* The complete top-level JSON objects of a text, in order, read from the
\* 1-based position i: an object that starts at a brace is taken whole, a
\* brace that starts none is text, and an object still open at the end of the
\* text ends the list.
RECURSIVE CompleteObjects(_, _)
CompleteObjects(text, i) ==
    IF i > Len(text) THEN <<>>
    ELSE IF text[i] # "{" THEN CompleteObjects(text, i + 1)
    ELSE LET end == jsonObject(text, i)
         IN  IF end > 0 THEN <<SubSeq(text, i, end)>> \o CompleteObjects(text, end + 1)
             ELSE IF end = 0 THEN CompleteObjects(text, i + 1)
             ELSE <<>>

\* C33: whatever the chunks, feed() has returned the complete top-level JSON
\* objects of the stream so far, each once and in stream order.
C33_EveryObjectOnce ==
    returned = CompleteObjects(fed, 1)

\* ------------------------------------------------- claims C32, C40

\* A later run was registered for the entry key of run `runId`.
Superseded(runId) ==
    \E newer \in (runId + 1)..runCounter : children[newer].key = children[runId].key

\* C32: two CLI child processes of the same config file never run at the same
\* time: of the children that were spawned and have not ended yet, no two
\* belong to targets of one config.
C32_NoParallelRuns ==
    \A r1 \in DOMAIN children, r2 \in DOMAIN children :
        (r1 # r2 /\ ~children[r1].closed /\ ~children[r2].closed)
            => ~startsWithConfigPrefix(children[r1].key, children[r2].key)

\* C40: an event (stdout, stderr, error, close) of a child whose entry key has
\* a later run registered leaves the entry states and the runningByEntry
\* records as they were.
C40_SupersededEventsInert ==
    [][(lastEvent'.runId # 0 /\ Superseded(lastEvent'.runId))
          => (stateByEntry' = stateByEntry /\ runningByEntry' = runningByEntry)]_vars

\* The last step delivered the close event of a superseded child while the
\* later run of its entry is registered and shown as running.
C40_Witness ==
    /\ lastEvent.kind = "close"
    /\ Superseded(lastEvent.runId)
    /\ LET key == children[lastEvent.runId].key
       IN /\ runningByEntry[key] > lastEvent.runId
          /\ stateByEntry[key] # Absent
          /\ stateByEntry[key][1].status = "running"

====
